---- MODULE Spec2Model ----
(***************************************************************************)
(* The executr coordinator's job store and the handlers and background     *)
(* loops that mutate it.  Every state transition of a job is one SQL       *)
(* statement of internal/db/migrations/001_initial_schema.up.sql, issued   *)
(* by a handler or a loop of the server (src/unnamed/part_009).            *)
(*                                                                         *)
(* Time is the database clock NOW() in seconds.  The claim statement is    *)
(* modelled in two steps (the locking sub-select, then the update that     *)
(* commits) so that concurrent claimers interleave inside it.              *)
(***************************************************************************)
EXTENDS Integers, Sequences, FiniteSets, TLC

VARIABLES
    jobs,            \* the jobs table: job id -> row, for the ids that exist
    nextId,          \* the next job id the store hands out (ids are never reused)
    attempts,        \* the job_attempts table: a sequence of rows, in insertion order
    now,             \* NOW() of the database, in seconds
    config,          \* server.Config: HeartbeatTimeout and JobRetention, in seconds
    claimTx,         \* executor -> its in-flight claim statement: the row it locked (id 0: none) and its NOW()
    staleJobs,       \* checkStaleJobs: rows selected by FindStaleJobs and not yet reset
    retriableJobs,   \* retryFailedJobs: rows selected by GetRetriableJobs and not yet promoted
    response,        \* HTTP status of the last request a handler answered (0: none yet)
    runningJobs,     \* executor -> ids of the jobs it was handed and has not yet reported
    claimCalls,      \* executor -> number of claim requests it has been answered
    completionOrder, \* job ids in the order in which they were completed
    cleanedAt,       \* NOW() of the last cleanupOldJobs tick that ran its DELETE (NoTime: none yet)
    worker,          \* one Executor process: its Config, contexts, goroutines and in-flight jobs
    sdk,             \* one call of the client SDK: its request, its attempts and what the server did with them
    cache,           \* one BinaryCache: its directory, its index and the outcome of the last GetBinary
    capture,         \* one captured output of a job's binary and what truncateOutput makes of it
    host,            \* one worker's executions and its work directory
    request,         \* the last request of a client of the job API and its answer
    listing          \* one list request: the table it ran on, its query parameters and its result

\* State outside the coordinator's store: untouched by its handlers and loops.
extraVars == <<cleanedAt, worker, sdk, cache, capture, host, request, listing>>

vars == <<jobs, nextId, attempts, now, config, claimTx, staleJobs, retriableJobs,
          response, runningJobs, claimCalls, completionOrder, extraVars>>

-----------------------------------------------------------------------------
(* Bounds of the model *)

MaxJobRows == 1          \* job ids the store hands out under Spec
MaxTime == 45          \* last value of the clock
RetryTime == 240       \* last value of the clock while retries back off
PriorityTime == 30     \* last value of the clock under SpecPriority
MaxAttempts == 3       \* rows of job_attempts, hence claims answered with a job
WaveJobs == 3          \* pending jobs of the claim wave (SpecClaim)
PriorityJobs == 3      \* jobs submitted under SpecPriority
WorkerJobs == 2        \* jobs one worker is handed under SpecWorker
WorkerTime == 120      \* last value of the worker's clock
ClientJobs == 2        \* jobs submitted under SpecClient
CacheCalls == 4        \* calls of GetBinary under SpecCache
ListRows == 1500       \* rows of the longest run of a listed table under SpecList

(* Program constants *)

MaxRetries == 3          \* maxRetries of NewRetryableHTTPClient
retryDelay == 1
maxDelay == 10
StaleSeconds == 15
MiB == 1048576
maxOutputSize == 1048576
maxHeadLines == 500
MarkerText == 51         \* bytes of the truncation marker besides its two numbers
DefaultCacheSize == 400
RetryBackoffSeconds == 60
RetriableLimit == 10
RetentionFactor == 3600

-----------------------------------------------------------------------------
(* Values *)

JobIds == 1..MaxJobRows
Executors == {"A", "B"}
Priorities == {"foreground", "background", "best_effort"}
TerminalStatuses == {"completed", "failed", "cancelled"}

NULL == "NULL"          \* SQL NULL of a text column
NoTime == -1            \* SQL NULL of a timestamp column
NoInt == -99            \* SQL NULL of an integer column
TickSteps == {15}

Pow2(n) == IF n <= 0 THEN 1 ELSE 2 ^ n

-----------------------------------------------------------------------------
(* The store: one operator per SQL statement.  XWhere is the WHERE clause  *)
(* of statement X evaluated on the current table, XSet its SET clause.     *)

Exists(id) == id \in DOMAIN jobs

\* A row's claim lock is held from the locking sub-select of ClaimNextJob
\* until the statement commits; NOW() of the statement is the time it began.
NoClaim == [id |-> 0, at |-> 0]

\* A claim that locks no row.
LockedNever(id) == FALSE

Locked(id) == \E e \in Executors : claimTx[e].id = id

\* CreateJob / CreateJobWithRetries: the inserted row (column defaults of the
\* jobs table and of migration 002).
NewJobRow(priority, maxRetries, createdAt) ==
    [ priority       |-> priority,
      status         |-> "pending",
      executor_id    |-> NULL,
      stdout         |-> NULL,
      stderr         |-> NULL,
      exit_code      |-> NoInt,
      error_message  |-> NULL,
      created_at     |-> createdAt,
      started_at     |-> NoTime,
      completed_at   |-> NoTime,
      last_heartbeat |-> NoTime,
      max_retries    |-> maxRetries,
      retry_count    |-> 0,
      retry_after    |-> NoTime ]

CreateJobWithRetries(priority, maxRetries) == NewJobRow(priority, maxRetries, now)

CreateJob(priority) == NewJobRow(priority, 0, now)

\* CancelJob
CancelJobWhereAnyStatus(id) == Exists(id) /\ jobs[id].status \in {"pending", "running"}

CancelJobWhere(id) == Exists(id) /\ jobs[id].status = "pending"
CancelJobSet(row) == [row EXCEPT !.status = "cancelled", !.completed_at = now]

\* ClaimNextJob: ORDER BY CASE priority ... END, created_at
PriorityRankAsText(p) ==
    CASE p = "background"  -> 1
      [] p = "best_effort" -> 2
      [] p = "foreground"  -> 3

PriorityRank(p) ==
    CASE p = "foreground"  -> 1
      [] p = "background"  -> 2
      [] p = "best_effort" -> 3

ClaimBefore(a, b) ==
    \/ PriorityRank(a.priority) < PriorityRank(b.priority)
    \/ /\ PriorityRank(a.priority) = PriorityRank(b.priority)
       /\ a.created_at < b.created_at

ClaimCandidatesNoLock == { id \in DOMAIN jobs : jobs[id].status = "pending" }

\* The rows the sub-select can lock: pending, and not locked by another
\* claim (FOR UPDATE SKIP LOCKED).
ClaimCandidates == { id \in DOMAIN jobs : jobs[id].status = "pending" /\ ~Locked(id) }

\* LIMIT 1 of the ordered candidates; rows that tie are picked arbitrarily.
ClaimNextJobSelect ==
    { id \in ClaimCandidates :
        \A other \in ClaimCandidates : ~ClaimBefore(jobs[other], jobs[id]) }

ClaimNextJobSetNoHeartbeat(row, executorID, at) ==
    [row EXCEPT !.status = "running",
                !.executor_id = executorID,
                !.started_at = at]

ClaimNextJobSet(row, executorID, at) ==
    [row EXCEPT !.status = "running",
                !.executor_id = executorID,
                !.started_at = at,
                !.last_heartbeat = at]

\* UpdateHeartbeat
UpdateHeartbeatWhereNoOwner(id, executorID) == Exists(id) /\ jobs[id].status = "running"

UpdateHeartbeatWhere(id, executorID) ==
    /\ Exists(id)
    /\ jobs[id].executor_id = executorID
    /\ jobs[id].status = "running"
UpdateHeartbeatSet(row) == [row EXCEPT !.last_heartbeat = now]

\* CompleteJob
CompleteJobWhereAnyStatus(id) == Exists(id)

CompleteJobWhere(id) == Exists(id) /\ jobs[id].status = "running"
CompleteJobSet(row, stdout, stderr, exitCode) ==
    [row EXCEPT !.status = "completed",
                !.stdout = stdout,
                !.stderr = stderr,
                !.exit_code = exitCode,
                !.completed_at = now]

\* FailJob
FailJobWhereAnyStatus(id) == Exists(id)

FailJobWhere(id) == Exists(id) /\ jobs[id].status = "running"
FailJobSetNoStamp(row, stdout, stderr, exitCode, errorMessage) ==
    [row EXCEPT !.status = "failed",
                !.stdout = stdout,
                !.stderr = stderr,
                !.exit_code = exitCode,
                !.error_message = errorMessage]

FailJobSet(row, stdout, stderr, exitCode, errorMessage) ==
    [row EXCEPT !.status = "failed",
                !.stdout = stdout,
                !.stderr = stderr,
                !.exit_code = exitCode,
                !.error_message = errorMessage,
                !.completed_at = now]

\* FindStaleJobs: last_heartbeat < NOW() - INTERVAL '15 seconds'
FindStaleJobs ==
    { id \in DOMAIN jobs :
        /\ jobs[id].status = "running"
        /\ jobs[id].last_heartbeat # NoTime
        /\ jobs[id].last_heartbeat < now - StaleSeconds }

\* ResetStaleJob
ResetStaleJobWhereAnyStatus(id) == Exists(id)

ResetStaleJobWhere(id) == Exists(id) /\ jobs[id].status = "running"
ResetStaleJobSet(row) ==
    [row EXCEPT !.status = "pending",
                !.executor_id = NULL,
                !.started_at = NoTime,
                !.last_heartbeat = NoTime]

\* A cleanup that takes terminal jobs of any age.
CleanupOldJobsAnyAge(interval) ==
    { id \in DOMAIN jobs : jobs[id].status \in TerminalStatuses }

\* CleanupOldJobs: completed_at < NOW() - $1::interval
CleanupOldJobs(interval) ==
    { id \in DOMAIN jobs :
        /\ jobs[id].status \in TerminalStatuses
        /\ jobs[id].completed_at # NoTime
        /\ jobs[id].completed_at < now - interval }

\* GetRetriableJobs: ORDER BY priority, created_at LIMIT 10 (priority is
\* compared as text: background < best_effort < foreground).
RetriableWhereNoBackoff(id) ==
    /\ jobs[id].status = "failed"
    /\ jobs[id].retry_count < jobs[id].max_retries
RetriableWhere(id) ==
    /\ jobs[id].status = "failed"
    /\ jobs[id].retry_count < jobs[id].max_retries
    /\ (jobs[id].retry_after = NoTime \/ jobs[id].retry_after < now)

TextRank(p) ==
    CASE p = "background"  -> 1
      [] p = "best_effort" -> 2
      [] p = "foreground"  -> 3

RetriableBefore(a, b) ==
    \/ TextRank(a.priority) < TextRank(b.priority)
    \/ /\ TextRank(a.priority) = TextRank(b.priority)
       /\ a.created_at < b.created_at

GetRetriableJobs ==
    LET matching == { id \in DOMAIN jobs : RetriableWhere(id) }
    IN  { S \in SUBSET matching :
            /\ Cardinality(S) = IF Cardinality(matching) < RetriableLimit
                                THEN Cardinality(matching) ELSE RetriableLimit
            /\ \A kept \in S, cut \in matching \ S :
                   ~RetriableBefore(jobs[cut], jobs[kept]) }

\* IncrementJobRetry
IncrementJobRetryWhere(id) ==
    /\ Exists(id)
    /\ jobs[id].status = "failed"
    /\ jobs[id].retry_count < jobs[id].max_retries
IncrementJobRetrySet(row) ==
    [row EXCEPT !.retry_count = row.retry_count + 1,
                !.status = "pending",
                !.retry_after = now + RetryBackoffSeconds * Pow2(row.retry_count),
                !.error_message = NULL,
                !.stdout = NULL,
                !.stderr = NULL,
                !.exit_code = NoInt,
                !.started_at = NoTime,
                !.completed_at = NoTime,
                !.executor_id = NULL,
                !.last_heartbeat = NoTime]

\* RecordJobAttempt: the inserted job_attempts row
RecordJobAttempt(id, executorID) ==
    [ job_id      |-> id,
      executor_id |-> executorID,
      started_at  |-> now,
      ended_at    |-> NoTime,
      status      |-> "running" ]

-----------------------------------------------------------------------------
(* Inputs *)

HeartbeatTimeouts == {15, 45}      \* --heartbeat-timeout, in seconds
JobRetentions == {0}               \* --job-retention, in seconds
BulkMaxRetries == {-1, 1}          \* max_retries of a bulk submission (any int32)

\* What executor e's run of a job captured, as executeJob reports it.
StdoutOf(e) == IF e = "A" THEN "out-A" ELSE "out-B"

\* The two fail reports of a worker: a run that exited non-zero
\* (executeJob) and a job that could not be prepared (failJob).
FailReports(e) ==
    { [error_message |-> "Job failed with non-zero exit code",
       stdout |-> StdoutOf(e), stderr |-> "err", exit_code |-> 1],
      [error_message |-> "Failed to get binary",
       stdout |-> "", stderr |-> "Failed to get binary", exit_code |-> -1] }

-----------------------------------------------------------------------------
(* Initial state: an empty store, idle loops, no request answered yet. *)

\* Config of a worker: the flags --max-jobs and --network-timeout (seconds).
WorkerConfigs == [MaxJobs : {1, 2}, NetworkTimeout : {60}]

NoJobs == [j \in {} |-> 0]
NoReport == [kind |-> "none", exit_code |-> NoInt]

\* executor.New followed by the start of Run: the context is live, Run waits
\* on it, pollForJobs waits in its select, the semaphore is empty.
NewExecutor(cfg) ==
    [ cfg |-> cfg,
      ctx |-> "live",                  \* e.ctx: live or done
      run |-> "blocked",               \* Run: blocked on ctx.Done, draining (wg.Wait), returned
      poll |-> "select",               \* pollForJobs: select, claiming, stopped_ctx, stopped_timeout
      tickPending |-> FALSE,           \* a tick waits in pollTicker.C
      jobSem |-> 0,                    \* len(jobSem)
      networkFailureStart |-> NoTime,
      clock |-> 0,                     \* time.Now() of the worker, in seconds
      lastSuccess |-> NoTime,          \* time of the last request the server answered
      inflight |-> NoJobs,             \* executeJob goroutines: job -> phase, pump, exit codes
      nextJob |-> 1,
      posted |-> NoReport ]            \* the last complete/fail request sent

\* pkg/client: no call made yet.  A call is in state "attempt" (about to
\* hand the request to http.Client.Do), "backoff" (waiting before the next
\* attempt) or "returned".
NoCall ==
    [ op       |-> "none",
      job      |-> 0,
      state    |-> "returned",
      i        |-> 0,                  \* loop variable of DoWithContext
      delay    |-> retryDelay,
      bodyRead |-> FALSE,              \* the request's body reader is at its end
      handled  |-> 0,                  \* requests of the call a handler of the server processed
      inserted |-> 0,                  \* rows of jobs the call's requests inserted
      promoted |-> 0,                  \* jobs the call's requests promoted to running
      resp     |-> 0,                  \* status of the response of the last attempt (0: none)
      err      |-> FALSE ]             \* the last attempt ended in a transport error

\* NewBinaryCache on an empty cache directory.  Files are named by a
\* digest and an extension ("" for a cached binary, ".tmp" for a download
\* in progress); a file has a content (the digest of its bytes) and a size.
NoFiles == [path \in {} |-> 0]
NoEntries == [digest \in {} |-> 0]
NoPath == [digest |-> "", ext |-> ""]
NoResult ==
    [ digest     |-> "",
      ok         |-> FALSE,            \* GetBinary returned a path and no error
      path       |-> NoPath,
      intact     |-> FALSE,            \* at return the path named a file with the requested digest
      hadIntact  |-> FALSE,            \* at the call the digest was indexed and its file intact
      downloaded |-> FALSE,            \* the call ran downloadBinary
      evicted    |-> {} ]              \* digests the call's evictIfNeeded removed from the index
NewBinaryCache(maxSizeMB) ==
    [ maxSizeMB |-> maxSizeMB,
      files     |-> NoFiles,           \* the cache directory: path -> content, size
      entries   |-> NoEntries,         \* c.entries: digest -> path, size, lastAccess
      clock     |-> 0,                 \* time.Now(): one tick per call
      requested |-> {},                \* digests GetBinary was called with
      succeeded |-> FALSE,             \* some call returned successfully
      corrupted |-> FALSE,             \* a file of the directory was altered behind the cache
      last      |-> NoResult ]

\* A captured output is the sequence of its lines (strings.Split on "\n");
\* a line is known by where its bytes come from (src: the number of the line
\* of the binary's output, 0 for the truncation marker) and by how many of
\* them it holds.  No output captured yet:
NoOutput == <<>>
NoCapture == [output |-> NoOutput, once |-> NoOutput, twice |-> NoOutput, applied |-> 0]

\* The worker process of executor "A" on its machine, before Run: the work
\* directory holds what a prior incarnation left there (entries are known
\* by name and kind), no executeJob goroutine runs.
NoExecutions == [x \in {} |-> 0]
NoEnded ==
    [ job      |-> 0,
      ran      |-> FALSE,              \* the binary ran and exited by itself
      result   |-> [exit_code |-> NoInt, stdout |-> "", stderr |-> ""],
      posts    |-> 0,                  \* terminal reports the execution posted
      report   |-> [kind |-> "none"],
      accepted |-> FALSE,              \* the server answered the report with 204
      dirLeft  |-> FALSE,              \* <workDir>/<jobID> existed when the execution returned
      shared   |-> FALSE ]             \* its cleanup removed a directory another execution was using
NewHost(maxJobs, leftovers) ==
    [ MaxJobs    |-> maxJobs,
      run        |-> "new",            \* Run: new, polling (cleanupOrphanedDirectories has run)
      entries    |-> leftovers,        \* the entries of the work directory
      executions |-> NoExecutions,     \* executeJob goroutines: slot of jobSem -> execution
      claimed    |-> FALSE,            \* a job was claimed since startup
      last       |-> NoEnded ]         \* the execution that returned last

\* No request of the client yet.  A request is known by its operation, its
\* body (a submission) or the id it names, the status the named job had,
\* the status code of the answer, and what it did to the table.
NoRequest ==
    [ op       |-> "none",
      body     |-> [type |-> <<>>, binary_url |-> "", priority |-> "", max_retries |-> 0],
      id       |-> 0,
      before   |-> "absent",          \* status of the named job at the request
      after    |-> "absent",          \* status of the named or inserted job after it
      code     |-> 0,
      inserted |-> 0,                  \* rows the request inserted
      same     |-> TRUE ]              \* the request left every row as it was

\* No list request yet.
NoList ==
    [ table  |-> <<>>,
      done   |-> FALSE,                \* a request was answered and its result not yet read
      query  |-> [ status |-> "", type |-> "", priority |-> "",
                   limit |-> [given |-> FALSE, value |-> 0],
                   offset |-> [given |-> FALSE, value |-> 0] ],
      result |-> <<>> ]

CleanerIdle == cleanedAt = NoTime
CaptureIdle == capture = NoCapture
HostIdle == host = NewHost(1, {})
RequestIdle == request = NoRequest
ListIdle == listing = NoList
CacheIdle == cache = NewBinaryCache(DefaultCacheSize)
SdkIdle == sdk = NoCall
WorkerIdle == worker = NewExecutor([MaxJobs |-> 1, NetworkTimeout |-> 60])

InitExtra ==
    /\ CleanerIdle
    /\ WorkerIdle
    /\ SdkIdle
    /\ CacheIdle
    /\ CaptureIdle
    /\ HostIdle
    /\ RequestIdle
    /\ ListIdle

Init ==
    /\ InitExtra
    /\ jobs = [id \in {} |-> 0]
    /\ nextId = 1
    /\ attempts = <<>>
    /\ now = 0
    /\ config \in [HeartbeatTimeout : HeartbeatTimeouts, JobRetention : JobRetentions]
    /\ claimTx = [e \in Executors |-> NoClaim]
    /\ staleJobs = {}
    /\ retriableJobs = {}
    /\ response = 0
    /\ runningJobs = [e \in Executors |-> {}]
    /\ claimCalls = [e \in Executors |-> 0]
    /\ completionOrder = <<>>

-----------------------------------------------------------------------------
(* Handlers of the job API.  Each leaves claimCalls and completionOrder to *)
(* the specification that uses it.                                         *)

loopVars == <<staleJobs, retriableJobs>>

\* The database clock advances.
Tick ==
    /\ \E d \in TickSteps : now + d <= MaxTime /\ now' = now + d
    /\ UNCHANGED <<jobs, nextId, attempts, config, claimTx, loopVars, response, runningJobs>>

\* POST /jobs: handleSubmitJob inserts with CreateJob (max_retries keeps its
\* column default).
handleSubmitJob(priority) ==
    /\ nextId <= MaxJobRows
    /\ jobs' = (nextId :> CreateJob(priority)) @@ jobs
    /\ nextId' = nextId + 1
    /\ response' = 201
    /\ UNCHANGED <<attempts, now, config, claimTx, loopVars, runningJobs>>

\* POST /jobs/bulk: handleBulkJobs inserts every submission with
\* CreateJobWithRetries; submissions is a sequence of [priority, max_retries].
RECURSIVE BulkInsert(_, _, _)
BulkInsert(table, id, submissions) ==
    IF submissions = <<>> THEN table
    ELSE BulkInsert((id :> CreateJobWithRetries(Head(submissions).priority,
                                                Head(submissions).max_retries)) @@ table,
                    id + 1, Tail(submissions))

handleBulkJobs(submissions) ==
    /\ Len(submissions) >= 1
    /\ nextId + Len(submissions) - 1 <= MaxJobRows
    /\ jobs' = BulkInsert(jobs, nextId, submissions)
    /\ nextId' = nextId + Len(submissions)
    /\ response' = 201
    /\ UNCHANGED <<attempts, now, config, claimTx, loopVars, runningJobs>>

\* DELETE /jobs/{id}: handleCancelJob.  CancelJob is a :one query, so an
\* update that matches no row is an error to the handler.  The update waits
\* for a claim that holds the row's lock.
handleCancelJob(id) ==
    /\ ~Locked(id)
    /\ IF CancelJobWhere(id)
       THEN jobs' = [jobs EXCEPT ![id] = CancelJobSet(jobs[id])] /\ response' = 204
       ELSE jobs' = jobs /\ response' = 500
    /\ UNCHANGED <<nextId, attempts, now, config, claimTx, loopVars, runningJobs>>

\* POST /jobs/claim, first step: the sub-select of ClaimNextJob locks the
\* row it picked.  One claim is in flight per executor (pollForJobs).
ClaimSelect(e) ==
    /\ claimTx[e] = NoClaim
    /\ Len(attempts) < MaxAttempts
    /\ \E id \in ClaimNextJobSelect : claimTx' = [claimTx EXCEPT ![e] = [id |-> id, at |-> now]]
    /\ UNCHANGED <<jobs, nextId, attempts, now, config, loopVars, response, runningJobs>>

\* POST /jobs/claim, second step: the update commits, handleClaimJob records
\* the attempt and answers with the row; executeJob stores the job.
ClaimUpdate(e) ==
    /\ claimTx[e] # NoClaim
    /\ LET id == claimTx[e].id IN
         /\ jobs' = [jobs EXCEPT ![id] = ClaimNextJobSet(jobs[id], e, claimTx[e].at)]
         /\ attempts' = Append(attempts, RecordJobAttempt(id, e))
         /\ runningJobs' = [runningJobs EXCEPT ![e] = @ \cup {id}]
    /\ claimTx' = [claimTx EXCEPT ![e] = NoClaim]
    /\ response' = 200
    /\ UNCHANGED <<nextId, now, config, loopVars>>

\* POST /jobs/claim when the sub-select finds no row: 204, nothing changes.
ClaimEmpty(e) ==
    /\ claimTx[e] = NoClaim
    /\ ClaimNextJobSelect = {}
    /\ response' = 204
    /\ UNCHANGED <<jobs, nextId, attempts, now, config, claimTx, loopVars, runningJobs>>

\* PUT /jobs/{id}/heartbeat: sendHeartbeats of a job the executor holds, and
\* handleHeartbeat.  UpdateHeartbeat is an :exec query: it succeeds whether
\* or not a row matched.
handleHeartbeat(id, e) ==
    /\ id \in runningJobs[e]
    /\ jobs' = IF UpdateHeartbeatWhere(id, e)
               THEN [jobs EXCEPT ![id] = UpdateHeartbeatSet(jobs[id])]
               ELSE jobs
    /\ response' = 204
    /\ UNCHANGED <<nextId, attempts, now, config, claimTx, loopVars, runningJobs>>

\* PUT /jobs/{id}/complete: the report at the end of executeJob (exit code
\* 0), and handleCompleteJob.  The request's executor_id must be non-empty
\* and is not passed to the query.
handleCompleteJob(id, e) ==
    /\ id \in runningJobs[e]
    /\ IF CompleteJobWhere(id)
       THEN /\ jobs' = [jobs EXCEPT ![id] = CompleteJobSet(jobs[id], StdoutOf(e), "", 0)]
            /\ response' = 204
       ELSE jobs' = jobs /\ response' = 500
    /\ runningJobs' = [runningJobs EXCEPT ![e] = @ \ {id}]
    /\ UNCHANGED <<nextId, attempts, now, config, claimTx, loopVars>>

\* PUT /jobs/{id}/fail: the report of executeJob or failJob, and
\* handleFailJob, which stores empty strings and a zero exit code as NULL.
handleFailJob(id, e, req) ==
    /\ id \in runningJobs[e]
    /\ IF req.error_message = ""
       THEN jobs' = jobs /\ response' = 400
       ELSE IF FailJobWhere(id)
       THEN /\ jobs' = [jobs EXCEPT ![id] =
                          FailJobSet(jobs[id],
                                     IF req.stdout = "" THEN NULL ELSE req.stdout,
                                     IF req.stderr = "" THEN NULL ELSE req.stderr,
                                     IF req.exit_code = 0 THEN NoInt ELSE req.exit_code,
                                     req.error_message)]
            /\ response' = 204
       ELSE jobs' = jobs /\ response' = 500
    /\ runningJobs' = [runningJobs EXCEPT ![e] = @ \ {id}]
    /\ UNCHANGED <<nextId, attempts, now, config, claimTx, loopVars>>

-----------------------------------------------------------------------------
(* Background loops of the server.  A tick of checkStaleJobs and of        *)
(* retryFailedJobs is a select followed by one statement per selected row; *)
(* requests are served between those statements.                           *)

apiVars == <<nextId, now, config, claimTx, response, runningJobs>>

\* checkStaleJobs: the FindStaleJobs query of a tick.
checkStaleJobsFind ==
    /\ staleJobs = {}
    /\ staleJobs' = FindStaleJobs
    /\ UNCHANGED <<jobs, attempts, retriableJobs, apiVars>>

\* checkStaleJobs: ResetStaleJob for one of the selected rows.
checkStaleJobsReset(id) ==
    /\ id \in staleJobs
    /\ jobs' = IF ResetStaleJobWhere(id)
               THEN [jobs EXCEPT ![id] = ResetStaleJobSet(jobs[id])]
               ELSE jobs
    /\ staleJobs' = staleJobs \ {id}
    /\ UNCHANGED <<attempts, retriableJobs, apiVars>>

\* cleanupOldJobs: one DELETE; job_attempts rows go with their job
\* (ON DELETE CASCADE).  The interval is JobRetention * 3600000000 us.
cleanupOldJobs ==
    /\ LET deleted == CleanupOldJobs(config.JobRetention * RetentionFactor) IN
         /\ jobs' = [id \in DOMAIN jobs \ deleted |-> jobs[id]]
         /\ attempts' = SelectSeq(attempts, LAMBDA a : a.job_id \notin deleted)
    /\ UNCHANGED <<loopVars, apiVars>>

\* retryFailedJobs: the GetRetriableJobs query of a tick.
retryFailedJobsGet ==
    /\ retriableJobs = {}
    /\ \E S \in GetRetriableJobs : retriableJobs' = S
    /\ UNCHANGED <<jobs, attempts, staleJobs, apiVars>>

\* retryFailedJobs: IncrementJobRetry for one of the selected rows.
retryFailedJobsIncrement(id) ==
    /\ id \in retriableJobs
    /\ jobs' = IF IncrementJobRetryWhere(id)
               THEN [jobs EXCEPT ![id] = IncrementJobRetrySet(jobs[id])]
               ELSE jobs
    /\ retriableJobs' = retriableJobs \ {id}
    /\ UNCHANGED <<attempts, staleJobs, apiVars>>

-----------------------------------------------------------------------------
(* The coordinator under any interleaving of requests and loop steps. *)

scenarioVars == <<claimCalls, completionOrder>>

BulkSubmissions ==
    { <<s>> : s \in [priority : Priorities, max_retries : BulkMaxRetries] }

Next ==
    /\ \/ Tick
       \/ \E p \in Priorities : handleSubmitJob(p)
       \/ \E subs \in BulkSubmissions : handleBulkJobs(subs)
       \/ \E id \in JobIds : handleCancelJob(id)
       \/ \E e \in Executors : ClaimSelect(e)
       \/ \E e \in Executors : ClaimUpdate(e)
       \/ \E e \in Executors : ClaimEmpty(e)
       \/ \E id \in JobIds, e \in Executors : handleHeartbeat(id, e)
       \/ \E id \in JobIds, e \in Executors : handleCompleteJob(id, e)
       \/ \E id \in JobIds, e \in Executors :
            \E req \in FailReports(e) : handleFailJob(id, e, req)
       \/ checkStaleJobsFind
       \/ \E id \in JobIds : checkStaleJobsReset(id)
       \/ cleanupOldJobs
       \/ retryFailedJobsGet
       \/ \E id \in JobIds : retryFailedJobsIncrement(id)
    /\ UNCHANGED scenarioVars
    /\ UNCHANGED extraVars

Spec == Init /\ [][Next]_vars

-----------------------------------------------------------------------------
(* A wave of claims: a fixed set of pending jobs, and claimers that each   *)
(* issue one claim request; nothing else touches the store.                *)

PendingRows ==
    { NewJobRow(p, 0, t) : p \in Priorities, t \in {0, 15} }

InitClaim ==
    /\ InitExtra
    /\ \E n \in 0..WaveJobs : jobs \in [1..n -> PendingRows]
    /\ \A a, b \in DOMAIN jobs : a < b => jobs[a].created_at <= jobs[b].created_at
    /\ nextId = Cardinality(DOMAIN jobs) + 1
    /\ attempts = <<>>
    /\ now = 15
    /\ config \in [HeartbeatTimeout : HeartbeatTimeouts, JobRetention : JobRetentions]
    /\ claimTx = [e \in Executors |-> NoClaim]
    /\ staleJobs = {}
    /\ retriableJobs = {}
    /\ response = 0
    /\ runningJobs = [e \in Executors |-> {}]
    /\ claimCalls = [e \in Executors |-> 0]
    /\ completionOrder = <<>>

WaveSelect(e) ==
    /\ claimCalls[e] = 0
    /\ ClaimSelect(e)
    /\ UNCHANGED scenarioVars

WaveUpdate(e) ==
    /\ ClaimUpdate(e)
    /\ claimCalls' = [claimCalls EXCEPT ![e] = @ + 1]
    /\ UNCHANGED completionOrder

WaveEmpty(e) ==
    /\ claimCalls[e] = 0
    /\ ClaimEmpty(e)
    /\ claimCalls' = [claimCalls EXCEPT ![e] = @ + 1]
    /\ UNCHANGED completionOrder

NextClaim ==
    /\ \/ \E e \in Executors : WaveSelect(e)
       \/ \E e \in Executors : WaveUpdate(e)
       \/ \E e \in Executors : WaveEmpty(e)
    /\ UNCHANGED extraVars

SpecClaim == InitClaim /\ [][NextClaim]_vars

-----------------------------------------------------------------------------
(* One worker with max-jobs = 1 draining a queue: jobs are submitted, the  *)
(* worker claims only while it holds no job (the semaphore of pollForJobs  *)
(* has one slot) and reports every job it ran.                             *)

PriorityWorkers == {"A"}

PrioritySubmit(p) ==
    /\ nextId <= PriorityJobs
    /\ jobs' = (nextId :> CreateJob(p)) @@ jobs
    /\ nextId' = nextId + 1
    /\ response' = 201
    /\ UNCHANGED <<attempts, now, config, claimTx, loopVars, runningJobs, scenarioVars>>

PriorityTick == Tick /\ now' <= PriorityTime /\ UNCHANGED scenarioVars

PrioritySelect(e) ==
    /\ runningJobs[e] = {}
    /\ ClaimSelect(e)
    /\ UNCHANGED scenarioVars

PriorityUpdate(e) ==
    /\ ClaimUpdate(e)
    /\ UNCHANGED scenarioVars

PriorityEmpty(e) ==
    /\ runningJobs[e] = {}
    /\ ClaimEmpty(e)
    /\ UNCHANGED scenarioVars

PriorityComplete(id, e) ==
    /\ handleCompleteJob(id, e)
    /\ completionOrder' = IF CompleteJobWhere(id)
                          THEN Append(completionOrder, id)
                          ELSE completionOrder
    /\ UNCHANGED claimCalls

NextPriority ==
    /\ \/ PriorityTick
       \/ \E p \in Priorities : PrioritySubmit(p)
       \/ \E e \in PriorityWorkers : PrioritySelect(e)
       \/ \E e \in PriorityWorkers : PriorityUpdate(e)
       \/ \E e \in PriorityWorkers : PriorityEmpty(e)
       \/ \E id \in 1..PriorityJobs, e \in PriorityWorkers : PriorityComplete(id, e)
    /\ UNCHANGED extraVars

SpecPriority == Init /\ [][NextPriority]_vars

-----------------------------------------------------------------------------
(* Retention: jobs run to a terminal status while the clock advances and   *)
(* jobCleaner ticks; the server was started with a job retention that is   *)
(* zero or one clock step.                                                 *)

RetentionSettings == {0, 15}       \* --job-retention, in seconds

InitRetention ==
    /\ InitExtra
    /\ jobs = [id \in {} |-> 0]
    /\ nextId = 1
    /\ attempts = <<>>
    /\ now = 0
    /\ config \in [HeartbeatTimeout : {StaleSeconds}, JobRetention : RetentionSettings]
    /\ claimTx = [e \in Executors |-> NoClaim]
    /\ staleJobs = {}
    /\ retriableJobs = {}
    /\ response = 0
    /\ runningJobs = [e \in Executors |-> {}]
    /\ claimCalls = [e \in Executors |-> 0]
    /\ completionOrder = <<>>

\* jobCleaner: a tick of the cleanup ticker runs cleanupOldJobs.
jobCleaner ==
    /\ cleanupOldJobs
    /\ cleanedAt' = now

NextRetention ==
    \/ /\ \/ Tick
          \/ \E p \in Priorities : handleSubmitJob(p)
          \/ \E id \in JobIds : handleCancelJob(id)
          \/ \E e \in Executors : ClaimSelect(e)
          \/ \E e \in Executors : ClaimUpdate(e)
          \/ \E id \in JobIds, e \in Executors : handleCompleteJob(id, e)
          \/ \E id \in JobIds, e \in Executors :
               \E req \in FailReports(e) : handleFailJob(id, e, req)
       /\ UNCHANGED <<scenarioVars, extraVars>>
    \/ jobCleaner /\ UNCHANGED <<scenarioVars, worker, sdk, cache, capture, host, request, listing>>

SpecRetention == InitRetention /\ [][NextRetention]_vars

-----------------------------------------------------------------------------
(* Recovery of abandoned jobs.  Workers claim, heartbeat and report; a     *)
(* worker may stop holding a job without the server hearing of it: its     *)
(* process dies, or the post at the end of executeJob fails and executeJob *)
(* returns (the deferred calls delete the job from runningJobs and cancel  *)
(* the heartbeat pump).  The database clock advances and heartbeatMonitor  *)
(* runs checkStaleJobs on every tick of its ticker.                        *)

\* executeJob ends without a report the server received.
executeJobAbandon(id, e) ==
    /\ id \in runningJobs[e]
    /\ runningJobs' = [runningJobs EXCEPT ![e] = @ \ {id}]
    /\ UNCHANGED <<jobs, nextId, attempts, now, config, claimTx, loopVars, response>>

RecoveryRequest ==
    \/ \E p \in Priorities : handleSubmitJob(p)
    \/ \E id \in JobIds : handleCancelJob(id)
    \/ \E e \in Executors : ClaimSelect(e)
    \/ \E e \in Executors : ClaimUpdate(e)
    \/ \E id \in JobIds, e \in Executors : handleHeartbeat(id, e)
    \/ \E id \in JobIds, e \in Executors : handleCompleteJob(id, e)
    \/ \E id \in JobIds, e \in Executors :
         \E req \in FailReports(e) : handleFailJob(id, e, req)

RecoveryFrame == UNCHANGED <<scenarioVars, extraVars>>

RecoveryTick == Tick /\ RecoveryFrame
RecoveryFind == checkStaleJobsFind /\ RecoveryFrame
RecoveryReset == (\E id \in JobIds : checkStaleJobsReset(id)) /\ RecoveryFrame

NextRecovery ==
    \/ RecoveryTick
    \/ RecoveryRequest /\ RecoveryFrame
    \/ (\E id \in JobIds, e \in Executors : executeJobAbandon(id, e)) /\ RecoveryFrame
    \/ RecoveryFind
    \/ RecoveryReset

\* Time passes, and the ticker of heartbeatMonitor keeps firing: a tick runs
\* FindStaleJobs and then ResetStaleJob for every row it returned.
RecoveryFairness ==
    /\ WF_vars(RecoveryTick)
    /\ WF_vars(RecoveryFind)
    /\ WF_vars(RecoveryReset)

SpecRecovery == Init /\ [][NextRecovery]_vars /\ RecoveryFairness

-----------------------------------------------------------------------------
(* Retries with backoff.  A job submitted in bulk with two retries is      *)
(* claimed and fails again and again while the clock advances and          *)
(* retryWorker runs retryFailedJobs on the ticks of its ticker.            *)

RetrySteps == {30}
RetrySubmissions == { <<[priority |-> "foreground", max_retries |-> 2]>> }

RetryFrame == UNCHANGED <<scenarioVars, extraVars>>

RetryTick ==
    /\ \E d \in RetrySteps : now + d <= RetryTime /\ now' = now + d
    /\ UNCHANGED <<jobs, nextId, attempts, config, claimTx, loopVars, response, runningJobs>>

NextRetry ==
    \/ RetryTick /\ RetryFrame
    \/ (\E subs \in RetrySubmissions : handleBulkJobs(subs)) /\ RetryFrame
    \/ (\E e \in Executors : ClaimSelect(e)) /\ RetryFrame
    \/ (\E e \in Executors : ClaimUpdate(e)) /\ RetryFrame
    \/ (\E id \in JobIds, e \in Executors :
          \E req \in FailReports(e) : handleFailJob(id, e, req)) /\ RetryFrame
    \/ retryFailedJobsGet /\ RetryFrame
    \/ (\E id \in JobIds : retryFailedJobsIncrement(id)) /\ RetryFrame

SpecRetry == Init /\ [][NextRetry]_vars

-----------------------------------------------------------------------------
(* One worker process (internal/executor/executor.go).  The coordinator is *)
(* its environment: a claim is answered with a job, with no job or with an *)
(* error, a heartbeat or a report succeeds or fails.  Go's select chooses  *)
(* among the ready cases, so a loop that finds both its context done and a *)
(* tick waiting may take either.                                           *)

WorkerSteps == {30}                \* seconds the worker's clock advances by
ExitCodes == {0, 1}                \* exit codes of a job's binary
KilledExit == -1                   \* exit code Execute returns for a killed or unstarted child

\* The store, left as it is after migration: no request reaches it here.
StoreIdle ==
    /\ jobs = [id \in {} |-> 0]
    /\ nextId = 1
    /\ attempts = <<>>
    /\ now = 0
    /\ config = [HeartbeatTimeout |-> StaleSeconds, JobRetention |-> 0]
    /\ claimTx = [e \in Executors |-> NoClaim]
    /\ staleJobs = {}
    /\ retriableJobs = {}
    /\ response = 0
    /\ runningJobs = [e \in Executors |-> {}]
    /\ claimCalls = [e \in Executors |-> 0]
    /\ completionOrder = <<>>

storeVars == <<jobs, nextId, attempts, now, config, claimTx, staleJobs, retriableJobs,
               response, runningJobs, claimCalls, completionOrder>>

InitWorker ==
    /\ StoreIdle
    /\ CleanerIdle
    /\ SdkIdle
    /\ CacheIdle
    /\ CaptureIdle
    /\ HostIdle
    /\ RequestIdle
    /\ ListIdle
    /\ worker \in { NewExecutor(cfg) : cfg \in WorkerConfigs }

InFlight == DOMAIN worker.inflight

\* time.Now() moves on.
WorkerClock ==
    /\ \E d \in WorkerSteps :
          /\ worker.clock + d <= WorkerTime
          /\ worker' = [worker EXCEPT !.clock = @ + d]

\* The shutdown signal: the context passed to Run is cancelled.
Signal ==
    /\ worker.ctx = "live"
    /\ worker' = [worker EXCEPT !.ctx = "done"]

\* Run: <-e.ctx.Done() returns, Run goes on to e.wg.Wait().
RunDone ==
    /\ worker.run = "blocked"
    /\ worker.ctx = "done"
    /\ worker' = [worker EXCEPT !.run = "draining"]

\* Run: e.wg.Wait() returns once pollForJobs and every executeJob are done.
RunReturn ==
    /\ worker.run = "draining"
    /\ worker.poll \in {"stopped_ctx", "stopped_timeout"}
    /\ InFlight = {}
    /\ worker' = [worker EXCEPT !.run = "returned"]

\* pollTicker fires while pollForJobs is busy in claimJob: the tick waits
\* in the channel (capacity one).
pollTickerFire ==
    /\ worker.poll = "claiming"
    /\ ~worker.tickPending
    /\ worker' = [worker EXCEPT !.tickPending = TRUE]

\* The capacity test of pollForJobs: case e.jobSem <- struct{}{} can proceed.
SemFreeAlways == TRUE

SemFree == worker.jobSem < worker.cfg.MaxJobs

\* pollForJobs takes case <-pollTicker.C: a tick that waited in the channel,
\* or one that arrives while the loop is blocked and the context is live.
\* With a free slot it takes the slot and calls claimJob; at capacity it
\* skips the poll.
pollForJobsTick ==
    /\ worker.poll = "select"
    /\ worker.tickPending \/ worker.ctx = "live"
    /\ worker' = IF SemFree
                 THEN [worker EXCEPT !.tickPending = FALSE,
                                     !.jobSem = @ + 1,
                                     !.poll = "claiming"]
                 ELSE [worker EXCEPT !.tickPending = FALSE]

\* pollForJobs takes case <-e.ctx.Done().
pollForJobsDone ==
    /\ worker.poll = "select"
    /\ worker.ctx = "done"
    /\ worker' = [worker EXCEPT !.poll = "stopped_ctx"]

NewJob(real) == [phase |-> "prepare", pump |-> TRUE, real |-> real, exit_code |-> NoInt]

\* claimJob returns: err != nil, a job, or no job.
claimJobError ==
    /\ worker.poll = "claiming"
    /\ worker' =
         IF worker.networkFailureStart = NoTime
         THEN [worker EXCEPT !.jobSem = @ - 1,
                             !.networkFailureStart = worker.clock,
                             !.poll = "select"]
         ELSE IF worker.clock - worker.networkFailureStart > worker.cfg.NetworkTimeout
         THEN [worker EXCEPT !.jobSem = @ - 1, !.poll = "stopped_timeout"]
         ELSE [worker EXCEPT !.jobSem = @ - 1, !.poll = "select"]

\* The branch for no job that keeps the slot.
claimJobEmptyKeepsSlot ==
    /\ worker.poll = "claiming"
    /\ worker' = [worker EXCEPT !.networkFailureStart = NoTime,
                                !.lastSuccess = worker.clock,
                                !.poll = "select"]

claimJobEmpty ==
    /\ worker.poll = "claiming"
    /\ worker' = [worker EXCEPT !.jobSem = @ - 1,
                                !.networkFailureStart = NoTime,
                                !.lastSuccess = worker.clock,
                                !.poll = "select"]

\* A job is returned: go e.executeJob(job), which keeps the slot and starts
\* the heartbeat pump.
claimJobJob(real) ==
    /\ worker.poll = "claiming"
    /\ worker.nextJob <= WorkerJobs
    /\ worker' = [worker EXCEPT !.networkFailureStart = NoTime,
                                !.lastSuccess = worker.clock,
                                !.inflight = (worker.nextJob :> NewJob(real)) @@ @,
                                !.nextJob = @ + 1,
                                !.poll = "select"]

\* executeJob up to runner.Execute: the job directory or the binary cannot
\* be had (failJob with exit code -1), or exec.CommandContext(e.ctx) starts
\* the child, which a context that is already done refuses.
executeJobPrepareFails(j) ==
    /\ j \in InFlight
    /\ worker.inflight[j].phase = "prepare"
    /\ worker' = [worker EXCEPT !.inflight[j].phase = "exited",
                                !.inflight[j].exit_code = KilledExit]

runnerStart(j) ==
    /\ j \in InFlight
    /\ worker.inflight[j].phase = "prepare"
    /\ worker' = IF worker.ctx = "done"
                 THEN [worker EXCEPT !.inflight[j].phase = "exited",
                                     !.inflight[j].exit_code = KilledExit]
                 ELSE [worker EXCEPT !.inflight[j].phase = "child"]

\* The binary exits on its own.
runnerExit(j) ==
    /\ j \in InFlight
    /\ worker.inflight[j].phase = "child"
    /\ worker' = [worker EXCEPT !.inflight[j].phase = "exited",
                                !.inflight[j].exit_code = worker.inflight[j].real]

\* exec.CommandContext kills the child when e.ctx is done.
runnerKilled(j) ==
    /\ j \in InFlight
    /\ worker.inflight[j].phase = "child"
    /\ worker.ctx = "done"
    /\ worker' = [worker EXCEPT !.inflight[j].phase = "exited",
                                !.inflight[j].exit_code = KilledExit]

\* sendHeartbeats takes case <-ticker.C; the request succeeds or fails.
sendHeartbeatsTick(j, ok) ==
    /\ j \in InFlight
    /\ worker.inflight[j].pump
    /\ worker' = IF ok THEN [worker EXCEPT !.lastSuccess = worker.clock] ELSE worker

\* sendHeartbeats takes case <-ctx.Done(): heartbeatCtx is a child of e.ctx.
sendHeartbeatsDone(j) ==
    /\ j \in InFlight
    /\ worker.inflight[j].pump
    /\ worker.ctx = "done"
    /\ worker' = [worker EXCEPT !.inflight[j].pump = FALSE]

\* executeJob reports the result (complete for exit code 0, fail otherwise;
\* the post is not retried here) and returns: the deferred calls stop the
\* pump, release the slot and call wg.Done.
executeJobReport(j, ok) ==
    /\ j \in InFlight
    /\ worker.inflight[j].phase = "exited"
    /\ worker' = [worker EXCEPT
                    !.posted = [kind |-> IF worker.inflight[j].exit_code = 0
                                         THEN "complete" ELSE "fail",
                                exit_code |-> worker.inflight[j].exit_code],
                    !.lastSuccess = IF ok THEN worker.clock ELSE @,
                    !.inflight = [k \in InFlight \ {j} |-> worker.inflight[k]],
                    !.jobSem = @ - 1]

WorkerJobIds == 1..WorkerJobs

WorkerStep ==
    \/ WorkerClock
    \/ RunDone
    \/ RunReturn
    \/ pollTickerFire
    \/ pollForJobsTick
    \/ pollForJobsDone
    \/ claimJobError
    \/ claimJobEmpty
    \/ \E real \in ExitCodes : claimJobJob(real)
    \/ \E j \in WorkerJobIds : executeJobPrepareFails(j)
    \/ \E j \in WorkerJobIds : runnerStart(j)
    \/ \E j \in WorkerJobIds : runnerExit(j)
    \/ \E j \in WorkerJobIds : runnerKilled(j)
    \/ \E j \in WorkerJobIds, ok \in BOOLEAN : sendHeartbeatsTick(j, ok)
    \/ \E j \in WorkerJobIds : sendHeartbeatsDone(j)
    \/ \E j \in WorkerJobIds, ok \in BOOLEAN : executeJobReport(j, ok)

NextWorker ==
    /\ Signal \/ WorkerStep
    /\ UNCHANGED <<storeVars, cleanedAt, sdk, cache, capture, host, request, listing>>

SpecWorker == InitWorker /\ [][NextWorker]_vars

\* The worker's goroutines keep running: every worker step that stays
\* possible is eventually taken.  The shutdown signal comes from outside and
\* need never come.
WorkerFairness == WF_vars(WorkerStep /\ UNCHANGED <<storeVars, cleanedAt, sdk, cache, capture, host, request, listing>>)

SpecWorkerLive == InitWorker /\ [][NextWorker]_vars /\ WorkerFairness

-----------------------------------------------------------------------------
(* The client SDK (pkg/client) in front of the coordinator.  Every method  *)
(* builds one http.Request and hands it to                                 *)
(* RetryableHTTPClient.DoWithContext, which loops over attempts.  An       *)
(* attempt either never reaches the server, or a handler processes it and  *)
(* the response arrives or is lost.  Requests with a body are built with   *)
(* bytes.NewReader: req.Clone shares the reader, so after an attempt that  *)
(* wrote the body a later attempt finds it at its end; net/http then fails *)
(* the attempt on a fresh connection and rewinds the body (GetBody) on a   *)
(* reused one.                                                             *)

SdkExecutor == "A"
SdkOps == {"SubmitJob", "GetJob", "CancelJob", "ClaimNextJob", "Heartbeat", "CompleteJob", "FailJob"}
BodyOps == {"SubmitJob", "ClaimNextJob", "Heartbeat", "CompleteJob", "FailJob"}
JobOps == {"GetJob", "CancelJob", "Heartbeat", "CompleteJob", "FailJob"}
HeldJobOps == {"Heartbeat", "CompleteJob", "FailJob"}
ClientJobIds == 1..ClientJobs
ClientPriorities == {"foreground"}

\* shouldRetry of NewRetryableHTTPClient
shouldRetry(resp, err) == err \/ resp >= 500 \/ resp = 429

\* A method of the SDK is called: the request is built, DoWithContext starts.
sdkCall(op, id) ==
    /\ sdk.state = "returned"
    /\ IF op \in JobOps THEN id \in ClientJobIds ELSE id = 0
    /\ op \in HeldJobOps => id \in runningJobs[SdkExecutor]
    /\ sdk' = [NoCall EXCEPT !.op = op, !.job = id, !.state = "attempt"]
    /\ UNCHANGED storeVars

\* POST /jobs of the SDK's SubmitJob.
ClientSubmit(p) ==
    /\ nextId <= ClientJobs
    /\ jobs' = (nextId :> CreateJob(p)) @@ jobs
    /\ nextId' = nextId + 1
    /\ response' = 201
    /\ UNCHANGED <<attempts, now, config, claimTx, loopVars, runningJobs>>

\* GET /jobs/{id}
handleGetJob(id) ==
    /\ response' = IF Exists(id) THEN 200 ELSE 404
    /\ UNCHANGED <<jobs, nextId, attempts, now, config, claimTx, loopVars, runningJobs>>

\* POST /jobs/claim with no other claim in flight: the statement of
\* ClaimNextJob and the insert of RecordJobAttempt, or 204.
handleClaimJob(e) ==
    /\ \A x \in Executors : claimTx[x] = NoClaim
    /\ \/ /\ Len(attempts) < MaxAttempts
          /\ \E id \in ClaimNextJobSelect :
               /\ jobs' = [jobs EXCEPT ![id] = ClaimNextJobSet(jobs[id], e, now)]
               /\ attempts' = Append(attempts, RecordJobAttempt(id, e))
               /\ runningJobs' = [runningJobs EXCEPT ![e] = @ \cup {id}]
          /\ response' = 200
          /\ UNCHANGED <<nextId, now, config, claimTx, loopVars>>
       \/ ClaimEmpty(e)

\* PUT /jobs/{id}/complete or /fail that arrives again after executeJob's
\* report was processed: the same statements, for a job the executor no
\* longer holds.
handleRepeatedReport(op, id) ==
    /\ op \in {"CompleteJob", "FailJob"}
    /\ id \notin runningJobs[SdkExecutor]
    /\ IF CompleteJobWhere(id)
       THEN /\ jobs' = [jobs EXCEPT ![id] =
                          IF op = "CompleteJob"
                          THEN CompleteJobSet(jobs[id], StdoutOf(SdkExecutor), "", 0)
                          ELSE FailJobSet(jobs[id], StdoutOf(SdkExecutor), "err", 1,
                                          "Job failed with non-zero exit code")]
            /\ response' = 204
       ELSE jobs' = jobs /\ response' = 500
    /\ UNCHANGED <<nextId, attempts, now, config, claimTx, loopVars, runningJobs>>

\* A handler whose query fails (the database is unreachable) answers 500.
handlerError ==
    /\ response' = 500
    /\ UNCHANGED <<jobs, nextId, attempts, now, config, claimTx, loopVars, runningJobs>>

\* The server processes one request of the SDK.
Serve(op, id) ==
    \/ op = "SubmitJob" /\ \E p \in ClientPriorities : ClientSubmit(p)
    \/ op = "GetJob" /\ handleGetJob(id)
    \/ op = "CancelJob" /\ handleCancelJob(id)
    \/ op = "ClaimNextJob" /\ handleClaimJob(SdkExecutor)
    \/ op = "Heartbeat" /\ handleHeartbeat(id, SdkExecutor)
    \/ op = "CompleteJob" /\ handleCompleteJob(id, SdkExecutor)
    \/ op = "FailJob" /\ \E req \in FailReports(SdkExecutor) : handleFailJob(id, SdkExecutor, req)
    \/ handleRepeatedReport(op, id)
    \/ handlerError

\* DoWithContext after c.client.Do returned resp, err: return unless
\* shouldRetry; break after the last attempt; otherwise wait.
AfterAttempt(call, resp, err) ==
    [call EXCEPT !.resp = resp, !.err = err,
                 !.state = IF shouldRetry(resp, err) /\ call.i < MaxRetries
                           THEN "backoff" ELSE "returned"]

\* An attempt that fails before anything is written (the connection is
\* refused): the body reader is untouched.
DoRefused ==
    /\ sdk.state = "attempt"
    /\ sdk' = AfterAttempt(sdk, 0, TRUE)
    /\ UNCHANGED storeVars

\* An attempt whose body reader is at its end, on a fresh connection: the
\* write fails (Content-Length announced, no body) and nothing is sent.
DoBodyGone ==
    /\ sdk.state = "attempt"
    /\ sdk.op \in BodyOps
    /\ sdk.bodyRead
    /\ sdk' = AfterAttempt(sdk, 0, TRUE)
    /\ UNCHANGED storeVars

\* An attempt that reaches the server: a handler processes it; the response
\* arrives, or it is lost and the attempt ends in an error (Timeout).
DoServed(lost) ==
    /\ sdk.state = "attempt"
    /\ Serve(sdk.op, sdk.job)
    /\ sdk' = AfterAttempt([sdk EXCEPT !.bodyRead = sdk.op \in BodyOps,
                                       !.handled = @ + 1,
                                       !.inserted = @ + (nextId' - nextId),
                                       !.promoted = @ + (Len(attempts') - Len(attempts))],
                           IF lost THEN 0 ELSE response', lost)
    /\ UNCHANGED scenarioVars

\* The wait before the next attempt: time.After(delay) fires.
DoBackoff ==
    /\ sdk.state = "backoff"
    /\ sdk' = [sdk EXCEPT !.i = @ + 1,
                          !.delay = IF @ * 2 > maxDelay THEN maxDelay ELSE @ * 2,
                          !.state = "attempt"]
    /\ UNCHANGED storeVars

\* The wait before the next attempt: ctx is done, DoWithContext returns ctx.Err().
DoCancelled ==
    /\ sdk.state = "backoff"
    /\ sdk' = [sdk EXCEPT !.state = "returned", !.resp = 0, !.err = TRUE]
    /\ UNCHANGED storeVars

InitClient ==
    /\ StoreIdle
    /\ CleanerIdle
    /\ WorkerIdle
    /\ SdkIdle
    /\ CacheIdle
    /\ CaptureIdle
    /\ HostIdle
    /\ RequestIdle
    /\ ListIdle

NextClient ==
    /\ \/ \E op \in SdkOps, id \in {0} \cup ClientJobIds : sdkCall(op, id)
       \/ DoRefused
       \/ DoBodyGone
       \/ \E lost \in BOOLEAN : DoServed(lost)
       \/ DoBackoff
       \/ DoCancelled
    /\ UNCHANGED <<cleanedAt, worker, cache, capture, host, request, listing>>

SpecClient == InitClient /\ [][NextClient]_vars

-----------------------------------------------------------------------------
(* The binary cache of a worker (BinaryCache).  GetBinary holds the        *)
(* cache's mutex from entry to return, so calls are serialized and each is *)
(* one step.  The directory can be altered behind the cache (a corrupted   *)
(* file).                                                                  *)

Digests == {"d1", "d2", "d3"}
Damaged == "bad"                   \* content whose SHA-256 is none of the digests
CacheBudgets == {0, 1, 2, 3}        \* --max-cache-size, in MB
Served == Digests \cup {Damaged, "error"}   \* what a download yields: bytes, or an error

\* Size of the binary with the given content, in bytes.
SizeOf(content) == IF content = "d2" THEN 2 * MiB ELSE MiB

cachePath(digest) == [digest |-> digest, ext |-> ""]
tempPath(digest) == [digest |-> digest, ext |-> ".tmp"]
CachePaths == { cachePath(d) : d \in Digests } \cup { tempPath(d) : d \in Digests }

Without(f, k) == [x \in DOMAIN f \ {k} |-> f[x]]

verifySHA256(files, path, expectedSHA256) ==
    path \in DOMAIN files /\ files[path].content = expectedSHA256

\* The digest is in the index and its file still verifies.
cacheHitNever(c, digest) == FALSE

cacheHit(c, digest) ==
    digest \in DOMAIN c.entries /\ verifySHA256(c.files, c.entries[digest].path, digest)

RECURSIVE SumSizes(_, _)
SumSizes(entries, keys) ==
    IF keys = {} THEN 0
    ELSE LET k == CHOOSE k \in keys : TRUE
         IN entries[k].size + SumSizes(entries, keys \ {k})

RECURSIVE evictNewest(_, _, _, _)
evictNewest(entries, files, totalSize, maxBytes) ==
    IF totalSize <= maxBytes \/ DOMAIN entries = {}
    THEN [entries |-> entries, files |-> files]
    ELSE LET k == CHOOSE k \in DOMAIN entries :
                    \A o \in DOMAIN entries : entries[k].lastAccess >= entries[o].lastAccess
         IN evictNewest(Without(entries, k), Without(files, entries[k].path),
                        totalSize - entries[k].size, maxBytes)

\* The loop of evictIfNeeded: oldest lastAccess first, until the total is
\* within the budget.
RECURSIVE evictOldest(_, _, _, _)
evictOldest(entries, files, totalSize, maxBytes) ==
    IF totalSize <= maxBytes \/ DOMAIN entries = {}
    THEN [entries |-> entries, files |-> files]
    ELSE LET k == CHOOSE k \in DOMAIN entries :
                    \A o \in DOMAIN entries : entries[k].lastAccess <= entries[o].lastAccess
         IN evictOldest(Without(entries, k), Without(files, entries[k].path),
                        totalSize - entries[k].size, maxBytes)

evictIfNeeded(entries, files, maxSizeMB) ==
    evictOldest(entries, files, SumSizes(entries, DOMAIN entries), maxSizeMB * MiB)

\* A failure path that forgets the temporary file.
osRemoveSkipped(files, path) == files

\* os.Remove(tempPath) on the failure paths of GetBinary
osRemove(files, path) == Without(files, path)

\* GetBinary(binaryURL, expectedSHA256); served is what the download of
\* binaryURL yields.
GetBinary(expectedSHA256, served) ==
    /\ cache.clock < CacheCalls
    /\ LET t == cache.clock + 1
           indexed == expectedSHA256 \in DOMAIN cache.entries
           hadIntact == indexed /\ verifySHA256(cache.files, cache.entries[expectedSHA256].path,
                                                expectedSHA256)
           hit == cacheHit(cache, expectedSHA256)
           \* SHA256 mismatch of an indexed file: delete the entry, remove the file
           entries1 == IF indexed THEN Without(cache.entries, expectedSHA256) ELSE cache.entries
           files1 == IF indexed THEN Without(cache.files, cache.entries[expectedSHA256].path)
                     ELSE cache.files
           \* downloadBinary creates tempPath and writes what arrives
           temp == IF served = "error"
                   THEN [content |-> Damaged, size |-> 0]
                   ELSE [content |-> served, size |-> SizeOf(served)]
           filesTemp == (tempPath(expectedSHA256) :> temp) @@ files1
           \* os.Remove(tempPath) of every failure path
           filesFailed == osRemove(filesTemp, tempPath(expectedSHA256))
           \* os.Rename(tempPath, cachePath)
           filesRenamed == (cachePath(expectedSHA256) :> temp) @@ filesFailed
           entries2 == (expectedSHA256 :> [path |-> cachePath(expectedSHA256),
                                           size |-> temp.size,
                                           lastAccess |-> t]) @@ entries1
           evicted == evictIfNeeded(entries2, filesRenamed, cache.maxSizeMB)
           called == [cache EXCEPT !.clock = t, !.requested = @ \cup {expectedSHA256}]
       IN cache' =
            IF hit
            THEN [called EXCEPT !.entries[expectedSHA256].lastAccess = t,
                                !.succeeded = TRUE,
                                !.last = [digest |-> expectedSHA256, ok |-> TRUE,
                                          path |-> cache.entries[expectedSHA256].path,
                                          intact |-> verifySHA256(cache.files,
                                                       cache.entries[expectedSHA256].path,
                                                       expectedSHA256),
                                          hadIntact |-> hadIntact, downloaded |-> FALSE,
                                          evicted |-> {}]]
            ELSE IF served = "error" \/ ~verifySHA256(filesTemp, tempPath(expectedSHA256),
                                                      expectedSHA256)
            THEN [called EXCEPT !.entries = entries1,
                                !.files = filesFailed,
                                !.last = [digest |-> expectedSHA256, ok |-> FALSE,
                                          path |-> NoPath, intact |-> FALSE,
                                          hadIntact |-> hadIntact, downloaded |-> TRUE,
                                          evicted |-> {}]]
            ELSE [called EXCEPT !.entries = evicted.entries,
                                !.files = evicted.files,
                                !.succeeded = TRUE,
                                !.last = [digest |-> expectedSHA256, ok |-> TRUE,
                                          path |-> cachePath(expectedSHA256),
                                          intact |-> verifySHA256(evicted.files,
                                                       cachePath(expectedSHA256),
                                                       expectedSHA256),
                                          hadIntact |-> hadIntact, downloaded |-> TRUE,
                                          evicted |-> DOMAIN entries2 \ DOMAIN evicted.entries]]

\* A file of the cache directory is altered behind the cache.
CorruptFile(path) ==
    /\ path \in DOMAIN cache.files
    /\ cache.files[path].content # Damaged
    /\ cache' = [cache EXCEPT !.files[path].content = Damaged, !.corrupted = TRUE]

InitCache ==
    /\ StoreIdle
    /\ CleanerIdle
    /\ WorkerIdle
    /\ SdkIdle
    /\ CaptureIdle
    /\ HostIdle
    /\ RequestIdle
    /\ ListIdle
    /\ cache \in { NewBinaryCache(mb) : mb \in CacheBudgets }

NextCache ==
    /\ \/ \E d \in Digests, served \in Served : GetBinary(d, served)
       \/ \E path \in CachePaths : CorruptFile(path)
    /\ UNCHANGED <<storeVars, cleanedAt, worker, sdk, capture, host, request, listing>>

SpecCache == InitCache /\ [][NextCache]_vars

-----------------------------------------------------------------------------
(* Output capture of the job runner (runner.go): truncateOutput is applied *)
(* to the stdout and to the stderr of every execution.                     *)

\* Bytes of lines a..b.
RECURSIVE SumLen(_, _, _)
SumLen(lines, a, b) ==
    IF a > b THEN 0
    ELSE IF a = b THEN lines[a].len
    ELSE LET m == (a + b) \div 2
         IN SumLen(lines, a, m) + SumLen(lines, m + 1, b)

\* len(strings.Join(lines[:m], "\n"))
JoinLen(lines, m) == IF m = 0 THEN 0 ELSE SumLen(lines, 1, m) + m - 1

\* len(s) of the string whose lines are given.
StrLen(lines) == JoinLen(lines, Len(lines))

\* The number of leading lines that lie entirely within the first n bytes
\* (searched between lo and hi).
RECURSIVE WholeLines(_, _, _, _)
WholeLines(lines, n, lo, hi) ==
    IF lo >= hi THEN lo
    ELSE LET mid == (lo + hi + 1) \div 2
         IN IF JoinLen(lines, mid) <= n
            THEN WholeLines(lines, n, mid, hi)
            ELSE WholeLines(lines, n, lo, mid - 1)

\* s[:n] for n < len(s), in lines: the lines that fit entirely, then what
\* is left of the next line after its newline.
Slice(lines, n) ==
    LET m == IF lines[1].len > n THEN 0 ELSE WholeLines(lines, n, 1, Len(lines))
        rest == n - JoinLen(lines, m)
    IN IF m = 0 THEN <<[src |-> lines[1].src, len |-> n]>>
       ELSE IF rest = 0 \/ m = Len(lines) THEN SubSeq(lines, 1, m)
       ELSE SubSeq(lines, 1, m) \o <<[src |-> lines[m + 1].src, len |-> rest - 1]>>

RECURSIVE Digits(_)
Digits(n) == IF n < 10 THEN 1 ELSE 1 + Digits(n \div 10)

\* fmt.Sprintf("\n... [OUTPUT TRUNCATED - Total %d bytes, %d lines] ...\n"):
\* the line of the marker, between its two newlines.
truncMarker(bytes, nlines) ==
    [src |-> 0, len |-> MarkerText - 2 + Digits(bytes) + Digits(nlines)]

\* lineSize of the tail loop: the line and its newline.
lineSizeNoNewline(line) == line.len

lineSize(line) == line.len + 1

\* tailSize once the loop has taken lines start..Len(lines).
RECURSIVE tailSize(_, _, _)
tailSize(lines, a, b) ==
    IF a > b THEN 0
    ELSE IF a = b THEN lineSize(lines[a])
    ELSE LET m == (a + b) \div 2
         IN tailSize(lines, a, m) + tailSize(lines, m + 1, b)

\* The tail loop: from the last line down to line maxHeadLines (0-based) it
\* takes lines while tailSize + lineSize <= remaining.  Sizes only grow, so
\* it stops at the first line (1-based, searched between lo and hi) from
\* which the lines to the end fit; Len(lines) + 1 if none does.
RECURSIVE TailStart(_, _, _, _)
TailStart(lines, remaining, lo, hi) ==
    IF lo >= hi THEN lo
    ELSE LET mid == (lo + hi) \div 2
         IN IF tailSize(lines, mid, Len(lines)) <= remaining
            THEN TailStart(lines, remaining, lo, mid)
            ELSE TailStart(lines, remaining, mid + 1, hi)

truncateOutput(output) ==
    IF StrLen(output) <= maxOutputSize THEN output
    ELSE IF Len(output) <= maxHeadLines THEN Slice(output, maxOutputSize)
    ELSE LET head == SubSeq(output, 1, maxHeadLines)
             \* the marker ends with a newline: an empty line follows it
             result == head \o <<truncMarker(StrLen(output), Len(output)),
                                [src |-> 0, len |-> 0]>>
             remaining == maxOutputSize - StrLen(result)
             start == TailStart(output, remaining, maxHeadLines + 1, Len(output) + 1)
         IN IF remaining <= 0 THEN Slice(result, maxOutputSize)
            ELSE IF start > Len(output) THEN result
            ELSE SubSeq(result, 1, maxHeadLines + 1) \o SubSeq(output, start, Len(output))

\* Outputs of a binary: nlines lines, the first maxHeadLines of headLen
\* bytes and the others of tailLen bytes.
Output(nlines, headLen, tailLen) ==
    [i \in 1..nlines |-> [src |-> i, len |-> IF i <= maxHeadLines THEN headLen ELSE tailLen]]

LineCounts == {1, 2, 500, 501, 503, 600}
HeadLengths == {0, 100, 2050, 2096, 2097, 2200, 1048576, 1048577}
TailLengths == {0, 100, 1000, 20000, 1048576}

Outputs ==
    { Output(n, h, t) : n \in LineCounts, h \in HeadLengths, t \in TailLengths }

\* Execute captured an output.
InitCapture ==
    /\ StoreIdle
    /\ CleanerIdle
    /\ WorkerIdle
    /\ SdkIdle
    /\ CacheIdle
    /\ HostIdle
    /\ RequestIdle
    /\ ListIdle
    /\ \E output \in Outputs : capture = [NoCapture EXCEPT !.output = output]

\* truncateOutput(stdout.String())
Truncate ==
    /\ capture.applied = 0
    /\ capture' = [capture EXCEPT !.once = truncateOutput(capture.output), !.applied = 1]

\* The truncated output is truncated again.
TruncateAgain ==
    /\ capture.applied = 1
    /\ capture' = [capture EXCEPT !.twice = truncateOutput(capture.once), !.applied = 2]

NextCapture ==
    /\ \/ Truncate
       \/ TruncateAgain
    /\ UNCHANGED <<storeVars, cleanedAt, worker, sdk, cache, host, request, listing>>

SpecCapture == InitCapture /\ [][NextCapture]_vars

-----------------------------------------------------------------------------
(* One worker, executor "A", with its work directory, against the job API. *)
(* Run cleans the work directory and polls; every claimed job runs in an   *)
(* executeJob goroutine that creates <workDir>/<jobID>, fetches the        *)
(* binary, runs it there, reports, and removes the directory on return.    *)
(* The server's stale recovery runs beside it.                             *)

HostExecutor == "A"
HostMaxJobs == {1, 2}                  \* --max-jobs
HostExitCodes == {0, 1}                \* exit codes of the jobs' binaries
HostStdouts == {"", "out-A"}           \* what a binary writes to stdout
HostStderrs == {"", "err"}             \* what a binary writes to stderr

\* What a prior incarnation of the worker may have left in the work
\* directory: a job directory and a plain file.
Leftovers ==
    SUBSET { [name |-> "orphan", kind |-> "dir"], [name |-> "stray", kind |-> "file"] }

\* job.ID.String(), the name of the job's directory under the work directory
JobDirName(id) == ToString(id)

Named(entries, name) == { entry \in entries : entry.name = name }

\* os.MkdirAll(jobDir): nothing to do when the directory exists
MkdirAll(entries, name) == entries \cup {[name |-> name, kind |-> "dir"]}

\* The deferred cleanup that forgets to remove the directory.
RemoveNothing(entries, name) == entries

\* os.RemoveAll(jobDir), the deferred cleanup of executeJob, on a file
\* system that obeys (a removal that fails is logged and nothing else)
RemoveAll(entries, name) == entries \ Named(entries, name)

\* cleanupOrphanedDirectories: every entry for which IsDir() holds is removed.
OrphanedDirectories(entries) == { entry \in entries : entry.kind = "dir" }

\* The request at the end of an execution whose binary ran is always
\* CompleteJob.
terminalReportComplete(ex) ==
    [ kind |-> "complete", stdout |-> ex.result.stdout, stderr |-> ex.result.stderr,
      exit_code |-> ex.result.exit_code ]

\* The request an execution sends when it returns: failJob's for a job that
\* could not be prepared, else CompleteJob for exit code 0 and FailJob for
\* any other.
terminalReport(ex) ==
    IF ex.via = "failJob"
    THEN [ kind |-> "fail", error_message |-> ex.result.stderr,
           stdout |-> ex.result.stdout, stderr |-> ex.result.stderr,
           exit_code |-> ex.result.exit_code ]
    ELSE IF ex.result.exit_code = 0
    THEN [ kind |-> "complete", stdout |-> ex.result.stdout, stderr |-> ex.result.stderr,
           exit_code |-> ex.result.exit_code ]
    ELSE [ kind |-> "fail", error_message |-> "Job failed with non-zero exit code",
           stdout |-> ex.result.stdout, stderr |-> ex.result.stderr,
           exit_code |-> ex.result.exit_code ]

\* handleCompleteJob for a request with a non-empty executor_id
serveCompleteJob(id, req) ==
    IF CompleteJobWhere(id)
    THEN /\ jobs' = [jobs EXCEPT ![id] =
                       CompleteJobSet(jobs[id], req.stdout, req.stderr, req.exit_code)]
         /\ response' = 204
    ELSE jobs' = jobs /\ response' = 500

\* handleFailJob for a request with a non-empty executor_id
serveFailJob(id, req) ==
    IF req.error_message = ""
    THEN jobs' = jobs /\ response' = 400
    ELSE IF FailJobWhere(id)
    THEN /\ jobs' = [jobs EXCEPT ![id] =
                       FailJobSet(jobs[id],
                                  IF req.stdout = "" THEN NULL ELSE req.stdout,
                                  IF req.stderr = "" THEN NULL ELSE req.stderr,
                                  IF req.exit_code = 0 THEN NoInt ELSE req.exit_code,
                                  req.error_message)]
         /\ response' = 204
    ELSE jobs' = jobs /\ response' = 500

\* dbJobToModel: a text column that is NULL reads as the empty string
TextOf(column) == IF column = NULL THEN "" ELSE column

hostFrame == UNCHANGED <<scenarioVars, cleanedAt, worker, sdk, cache, capture, request, listing>>

\* Run, up to the start of pollForJobs: cleanupOrphanedDirectories.
cleanupOrphanedDirectories ==
    /\ host.run = "new"
    /\ host' = [host EXCEPT !.run = "polling",
                            !.entries = @ \ OrphanedDirectories(@)]
    /\ UNCHANGED storeVars

\* pollForJobs with a free slot of jobSem: the claim request is sent.
HostClaimSelect ==
    /\ host.run = "polling"
    /\ Cardinality(DOMAIN host.executions) < host.MaxJobs
    /\ ClaimSelect(HostExecutor)
    /\ UNCHANGED host

\* The claim is answered with a job: go executeJob(job), which stores the
\* job in runningJobs.
HostClaimUpdate ==
    /\ ClaimUpdate(HostExecutor)
    /\ LET x == CHOOSE slot \in 1..host.MaxJobs : slot \notin DOMAIN host.executions IN
         host' = [host EXCEPT
                    !.claimed = TRUE,
                    !.executions =
                       (x :> [ job     |-> claimTx[HostExecutor].id,
                               phase   |-> "mkdir",
                               cleanup |-> FALSE,      \* the deferred RemoveAll is registered
                               via     |-> "report",
                               ran     |-> FALSE,
                               result  |-> NoEnded.result ]) @@ @]

\* sendHeartbeats of an execution: a heartbeat that reaches the server.
HostHeartbeat(x) ==
    /\ x \in DOMAIN host.executions
    /\ LET id == host.executions[x].job IN
         jobs' = IF UpdateHeartbeatWhere(id, HostExecutor)
                 THEN [jobs EXCEPT ![id] = UpdateHeartbeatSet(jobs[id])]
                 ELSE jobs
    /\ response' = 204
    /\ UNCHANGED <<nextId, attempts, now, config, claimTx, loopVars, runningJobs, host>>

\* executeJob: os.MkdirAll(jobDir).  It fails when a plain file has the
\* directory's name or the file system refuses; the execution then goes to
\* failJob and returns with no cleanup registered.
executeJobMkdir(x, ok) ==
    /\ x \in DOMAIN host.executions
    /\ host.executions[x].phase = "mkdir"
    /\ LET name == JobDirName(host.executions[x].job)
           isDir == [name |-> name, kind |-> "dir"] \in host.entries
           isFile == [name |-> name, kind |-> "file"] \in host.entries
       IN /\ isDir => ok
          /\ isFile => ~ok
          /\ host' = IF ok
                     THEN [host EXCEPT !.entries = MkdirAll(@, name),
                                       !.executions[x].phase = "binary",
                                       !.executions[x].cleanup = TRUE]
                     ELSE [host EXCEPT !.executions[x].phase = "exited",
                                       !.executions[x].via = "failJob",
                                       !.executions[x].result =
                                          [exit_code |-> -1, stdout |-> "",
                                           stderr |-> "Failed to create job directory"]]
    /\ UNCHANGED storeVars

\* executeJob: e.cache.GetBinary; on an error the execution goes to failJob.
executeJobGetBinary(x, ok) ==
    /\ x \in DOMAIN host.executions
    /\ host.executions[x].phase = "binary"
    /\ host' = IF ok
               THEN [host EXCEPT !.executions[x].phase = "start"]
               ELSE [host EXCEPT !.executions[x].phase = "exited",
                                 !.executions[x].via = "failJob",
                                 !.executions[x].result =
                                    [exit_code |-> -1, stdout |-> "",
                                     stderr |-> "Failed to get binary"]]
    /\ UNCHANGED storeVars

\* runner.Execute, cmd.Run starts the binary in jobDir.  Without the
\* directory the child cannot be started: exit code -1 and the error text
\* on stderr.
runnerExecuteStart(x) ==
    /\ x \in DOMAIN host.executions
    /\ host.executions[x].phase = "start"
    /\ LET name == JobDirName(host.executions[x].job) IN
         host' = IF [name |-> name, kind |-> "dir"] \in host.entries
                 THEN [host EXCEPT !.executions[x].phase = "child"]
                 ELSE [host EXCEPT !.executions[x].phase = "exited",
                                   !.executions[x].result =
                                      [exit_code |-> -1, stdout |-> "",
                                       stderr |-> "Execution error"]]
    /\ UNCHANGED storeVars

\* runner.Execute, cmd.Run returns: the binary exited with exitCode having
\* written stdout and stderr.
runnerExecuteExit(x, exitCode, stdout, stderr) ==
    /\ x \in DOMAIN host.executions
    /\ host.executions[x].phase = "child"
    /\ host' = [host EXCEPT !.executions[x].phase = "exited",
                            !.executions[x].ran = TRUE,
                            !.executions[x].result =
                               [exit_code |-> exitCode, stdout |-> stdout, stderr |-> stderr]]
    /\ UNCHANGED storeVars

\* Another executeJob goroutine of the same job has created the directory
\* and not yet returned.
SharedDir(x) ==
    \E y \in DOMAIN host.executions \ {x} :
      /\ host.executions[y].job = host.executions[x].job
      /\ host.executions[y].cleanup

\* executeJob returns: the terminal report is posted (it reaches the server
\* or fails in transport), then the deferred calls run: RemoveAll(jobDir) if
\* it was registered, runningJobs.Delete, the slot of jobSem is released.
executeJobReturn(x, delivered) ==
    /\ x \in DOMAIN host.executions
    /\ host.executions[x].phase = "exited"
    /\ LET ex == host.executions[x]
           id == ex.job
           req == terminalReport(ex)
           left == IF ex.cleanup THEN RemoveAll(host.entries, JobDirName(id))
                   ELSE host.entries
       IN /\ IF ~delivered THEN jobs' = jobs /\ response' = 0
             ELSE IF req.kind = "complete" THEN serveCompleteJob(id, req)
             ELSE serveFailJob(id, req)
          /\ runningJobs' = [runningJobs EXCEPT ![HostExecutor] = @ \ {id}]
          /\ host' = [host EXCEPT
                        !.entries = left,
                        !.executions = [y \in DOMAIN @ \ {x} |-> @[y]],
                        !.last = [ job      |-> id,
                                   ran      |-> ex.ran,
                                   result   |-> ex.result,
                                   posts    |-> 1,
                                   report   |-> req,
                                   accepted |-> response' = 204,
                                   dirLeft  |-> Named(left, JobDirName(id)) # {},
                                   shared   |-> ex.cleanup /\ SharedDir(x) ]]
    /\ UNCHANGED <<nextId, attempts, now, config, claimTx, loopVars>>

InitHost ==
    /\ CleanerIdle
    /\ WorkerIdle
    /\ SdkIdle
    /\ CacheIdle
    /\ CaptureIdle
    /\ RequestIdle
    /\ ListIdle
    /\ host \in { NewHost(maxJobs, leftovers) : maxJobs \in HostMaxJobs, leftovers \in Leftovers }
    /\ jobs = [id \in {} |-> 0]
    /\ nextId = 1
    /\ attempts = <<>>
    /\ now = 0
    /\ config = [HeartbeatTimeout |-> StaleSeconds, JobRetention |-> 0]
    /\ claimTx = [e \in Executors |-> NoClaim]
    /\ staleJobs = {}
    /\ retriableJobs = {}
    /\ response = 0
    /\ runningJobs = [e \in Executors |-> {}]
    /\ claimCalls = [e \in Executors |-> 0]
    /\ completionOrder = <<>>

HostSlots == 1..2

NextHost ==
    /\ \/ Tick /\ UNCHANGED host
       \/ (\E p \in ClientPriorities : handleSubmitJob(p)) /\ UNCHANGED host
       \/ checkStaleJobsFind /\ UNCHANGED host
       \/ (\E id \in DOMAIN jobs : checkStaleJobsReset(id)) /\ UNCHANGED host
       \/ cleanupOrphanedDirectories
       \/ HostClaimSelect
       \/ HostClaimUpdate
       \/ \E x \in HostSlots : HostHeartbeat(x)
       \/ \E x \in HostSlots, ok \in BOOLEAN : executeJobMkdir(x, ok)
       \/ \E x \in HostSlots, ok \in BOOLEAN : executeJobGetBinary(x, ok)
       \/ \E x \in HostSlots : runnerExecuteStart(x)
       \/ \E x \in HostSlots, exitCode \in HostExitCodes,
            stdout \in HostStdouts, stderr \in HostStderrs :
              runnerExecuteExit(x, exitCode, stdout, stderr)
       \/ \E x \in HostSlots, delivered \in BOOLEAN : executeJobReturn(x, delivered)
    /\ hostFrame

SpecHost == InitHost /\ [][NextHost]_vars

-----------------------------------------------------------------------------
(* A client of the job API: single and bulk submissions with any body,     *)
(* cancellations of any id, and the answers it gets, while an executor     *)
(* claims and fails the jobs and the retry loop runs.                      *)

ApiExecutor == "A"
\* type of a submission, as the sequence of its characters
SubmittedTypes == {<<>>, <<"a", " ", "b">>, <<"a", "b">>}
SubmittedURLs == {"", "http://host/bin"}             \* binary_url of a submission
SubmittedPriorities == Priorities \cup {"", "urgent"}
SubmittedMaxRetries == {0, 1}                        \* max_retries of a submission
JobSubmissions ==
    [ type : SubmittedTypes, binary_url : SubmittedURLs,
      priority : SubmittedPriorities, max_retries : SubmittedMaxRetries ]

\* The ids a client may name: those of the table and one that no row has.
CancelledIds == 1..(MaxJobRows + 1)

\* The CHECK constraint of jobs.priority
PriorityCheck(priority) == priority \in Priorities

apiFrame == UNCHANGED <<scenarioVars, cleanedAt, worker, sdk, cache, capture, host, listing>>

\* POST /jobs with any body: handleSubmitJob checks type and binary_url for
\* emptiness and inserts with CreateJob; an insert the database refuses is
\* answered 500.
handleSubmitJobBody(submission) ==
    /\ nextId <= MaxJobRows
    /\ IF submission.type = <<>> \/ submission.binary_url = ""
       THEN /\ response' = 400
            /\ UNCHANGED <<jobs, nextId>>
       ELSE IF ~PriorityCheck(submission.priority)
       THEN /\ response' = 500
            /\ UNCHANGED <<jobs, nextId>>
       ELSE /\ jobs' = (nextId :> CreateJob(submission.priority)) @@ jobs
            /\ nextId' = nextId + 1
            /\ response' = 201
    /\ request' = [ op       |-> "submit",
                    body     |-> submission,
                    id       |-> IF nextId' = nextId THEN 0 ELSE nextId,
                    before   |-> "absent",
                    after    |-> IF nextId' = nextId THEN "absent" ELSE jobs'[nextId].status,
                    code     |-> response',
                    inserted |-> Cardinality(DOMAIN jobs') - Cardinality(DOMAIN jobs),
                    same     |-> jobs' = jobs ]
    /\ UNCHANGED <<attempts, now, config, claimTx, loopVars, runningJobs>>

\* POST /jobs/bulk with one valid submission.
ApiBulk(submission) ==
    /\ handleBulkJobs(<<[priority |-> submission.priority,
                         max_retries |-> submission.max_retries]>>)
    /\ request' = [ op       |-> "bulk",
                    body     |-> submission,
                    id       |-> nextId,
                    before   |-> "absent",
                    after    |-> jobs'[nextId].status,
                    code     |-> response',
                    inserted |-> Cardinality(DOMAIN jobs') - Cardinality(DOMAIN jobs),
                    same     |-> jobs' = jobs ]

\* DELETE /jobs/{id} for any id.
ApiCancel(id) ==
    /\ handleCancelJob(id)
    /\ request' = [ op       |-> "cancel",
                    body     |-> NoRequest.body,
                    id       |-> id,
                    before   |-> IF Exists(id) THEN jobs[id].status ELSE "absent",
                    after    |-> IF Exists(id) THEN jobs'[id].status ELSE "absent",
                    code     |-> response',
                    inserted |-> 0,
                    same     |-> jobs' = jobs ]

\* PUT /jobs/{id}/complete or /fail from any caller, for a job in any
\* status.  The update waits for a claim that holds the row's lock.
ApiReport(id, req) ==
    /\ ~Locked(id)
    /\ IF req.kind = "complete" THEN serveCompleteJob(id, req) ELSE serveFailJob(id, req)
    /\ request' = [ op       |-> req.kind,
                    body     |-> NoRequest.body,
                    id       |-> id,
                    before   |-> IF Exists(id) THEN jobs[id].status ELSE "absent",
                    after    |-> IF Exists(id) THEN jobs'[id].status ELSE "absent",
                    code     |-> response',
                    inserted |-> 0,
                    same     |-> jobs' = jobs ]
    /\ UNCHANGED <<nextId, attempts, now, config, claimTx, loopVars, runningJobs>>

\* The bodies of the reports a caller sends.
ApiReports ==
    { [kind |-> "complete", stdout |-> "late", stderr |-> "", exit_code |-> 0],
      [kind |-> "fail", error_message |-> "late failure",
       stdout |-> "late", stderr |-> "err", exit_code |-> 1] }

InitApi ==
    /\ CleanerIdle
    /\ WorkerIdle
    /\ SdkIdle
    /\ CacheIdle
    /\ CaptureIdle
    /\ HostIdle
    /\ RequestIdle
    /\ ListIdle
    /\ jobs = [id \in {} |-> 0]
    /\ nextId = 1
    /\ attempts = <<>>
    /\ now = 0
    /\ config = [HeartbeatTimeout |-> StaleSeconds, JobRetention |-> 0]
    /\ claimTx = [e \in Executors |-> NoClaim]
    /\ staleJobs = {}
    /\ retriableJobs = {}
    /\ response = 0
    /\ runningJobs = [e \in Executors |-> {}]
    /\ claimCalls = [e \in Executors |-> 0]
    /\ completionOrder = <<>>

NextApi ==
    /\ \/ \E submission \in JobSubmissions : handleSubmitJobBody(submission)
       \/ \E submission \in JobSubmissions :
            /\ submission.type # <<>> /\ submission.binary_url # ""
            /\ PriorityCheck(submission.priority)
            /\ ApiBulk(submission)
       \/ \E id \in CancelledIds : ApiCancel(id)
       \/ \E id \in DOMAIN jobs, req \in ApiReports : ApiReport(id, req)
       \/ ClaimSelect(ApiExecutor) /\ UNCHANGED request
       \/ ClaimUpdate(ApiExecutor) /\ UNCHANGED request
       \/ ClaimEmpty(ApiExecutor) /\ UNCHANGED request
       \/ (\E id \in DOMAIN jobs, req \in FailReports(ApiExecutor) :
             handleFailJob(id, ApiExecutor, req)) /\ UNCHANGED request
       \/ (\E id \in DOMAIN jobs : handleCompleteJob(id, ApiExecutor)) /\ UNCHANGED request
       \/ retryFailedJobsGet /\ UNCHANGED request
       \/ (\E id \in DOMAIN jobs : retryFailedJobsIncrement(id)) /\ UNCHANGED request
    /\ apiFrame

SpecApi == InitApi /\ [][NextApi]_vars

-----------------------------------------------------------------------------
(* GET /jobs.  The table is known by its rows in ORDER BY created_at DESC  *)
(* order, as a sequence of runs: count consecutive rows with the same      *)
(* status, type and priority.  A result is the sequence of the pieces of   *)
(* runs it holds, in order.                                                *)

DefaultLimit == 100                    \* limit := int32(100)
NoParam == [given |-> FALSE, value |-> 0]

Run(count, status, type, priority) ==
    [count |-> count, status |-> status, type |-> type, priority |-> priority]

ListedTables ==
    { <<>>,
      << Run(1, "pending", "a", "foreground"), Run(1, "running", "b", "background"),
         Run(2, "pending", "b", "foreground"), Run(1, "completed", "a", "foreground") >>,
      << Run(ListRows, "pending", "a", "foreground"), Run(1, "failed", "a", "foreground") >>,
      << Run(3, "completed", "a", "best_effort"), Run(ListRows, "pending", "a", "background") >> }

\* Query parameters of a request: "" is what q.Get returns for an absent one.
ListedStatuses == {"", "pending", "completed"}
ListedTypes == {"", "a"}
ListedPriorities == {"", "foreground"}
ListedLimits ==
    {NoParam} \cup { [given |-> TRUE, value |-> v] : v \in {-1, 0, 1, 2, 1000, 1001, 1500} }
ListedOffsets == {NoParam} \cup { [given |-> TRUE, value |-> v] : v \in {-1, 1, 3} }

\* handleListJobs: the limit handed to the query
limitOf(param) == IF param.given /\ param.value > 0 THEN param.value ELSE DefaultLimit

\* handleListJobs: the offset handed to the query
offsetOf(param) == IF param.given /\ param.value >= 0 THEN param.value ELSE 0

\* ListJobs: $1::text IS NULL OR column = $1, for a parameter that is a text
matchesParam(column, param) == param = NULL \/ column = param

\* The filter that treats the empty parameter as NULL.
matchesOrEmpty(column, param) == param = "" \/ column = param

\* ListJobs: WHERE of a row against the three parameters
ListJobsWhere(row, status, type, priority) ==
    /\ matchesParam(row.status, status)
    /\ matchesParam(row.type, type)
    /\ matchesParam(row.priority, priority)

\* ListJobs: ORDER BY created_at DESC LIMIT $4 OFFSET $5 over the runs from i on
RECURSIVE ListJobsFrom(_, _, _, _, _, _, _)
ListJobsFrom(table, i, status, type, priority, limit, offset) ==
    IF i > Len(table) \/ limit = 0 THEN <<>>
    ELSE IF ~ListJobsWhere(table[i], status, type, priority)
    THEN ListJobsFrom(table, i + 1, status, type, priority, limit, offset)
    ELSE LET skipped == IF offset < table[i].count THEN offset ELSE table[i].count
             rest == table[i].count - skipped
             taken == IF rest < limit THEN rest ELSE limit
         IN (IF taken > 0 THEN <<[run |-> i, skip |-> skipped, count |-> taken]>> ELSE <<>>)
              \o ListJobsFrom(table, i + 1, status, type, priority,
                              limit - taken, offset - skipped)

\* handleListJobs: the parameters go to the query as the strings q.Get
\* returned.
handleListJobsOn(table, query) ==
    ListJobsFrom(table, 1, query.status, query.type, query.priority,
                 limitOf(query.limit), offsetOf(query.offset))

\* One request on one table.
handleListJobs(query) ==
    /\ ~listing.done
    /\ listing' = [listing EXCEPT !.done = TRUE, !.query = query,
                                  !.result = handleListJobsOn(listing.table, query)]
    /\ UNCHANGED <<storeVars, cleanedAt, worker, sdk, cache, capture, host, request>>

\* The client reads the answer; the next request follows.
ListAgain ==
    /\ listing.done
    /\ listing' = [listing EXCEPT !.done = FALSE, !.query = NoList.query, !.result = <<>>]
    /\ UNCHANGED <<storeVars, cleanedAt, worker, sdk, cache, capture, host, request>>

InitList ==
    /\ CleanerIdle
    /\ WorkerIdle
    /\ SdkIdle
    /\ CacheIdle
    /\ CaptureIdle
    /\ HostIdle
    /\ RequestIdle
    /\ listing \in { [NoList EXCEPT !.table = table] : table \in ListedTables }
    /\ StoreIdle

NextList ==
    \/ \E status \in ListedStatuses, type \in ListedTypes, priority \in ListedPriorities,
         limit \in ListedLimits, offset \in ListedOffsets :
           handleListJobs([status |-> status, type |-> type, priority |-> priority,
                           limit |-> limit, offset |-> offset])
    \/ ListAgain

SpecList == InitList /\ [][NextList]_vars

-----------------------------------------------------------------------------------------------------------------------------------------------------
(* The worker with its binary cache: executeJob obtains the binary with    *)
(* e.cache.GetBinary, whose download may fail or yield other bytes than    *)
(* the job's digest names; files of the cache directory may be altered     *)
(* behind the cache.                                                       *)

FetchDigests == {"d1"}             \* binary_sha256 of the submitted jobs

\* executeJob: e.cache.GetBinary(job.BinaryURL, job.BinarySHA256) and the
\* branch on its error.
executeJobFetch(x, digest, served) ==
    /\ x \in DOMAIN host.executions
    /\ host.executions[x].phase = "binary"
    /\ GetBinary(digest, served)
    /\ executeJobGetBinary(x, cache'.last.ok)

InitFetch ==
    /\ CleanerIdle
    /\ WorkerIdle
    /\ SdkIdle
    /\ CacheIdle
    /\ CaptureIdle
    /\ RequestIdle
    /\ ListIdle
    /\ host \in { NewHost(maxJobs, {}) : maxJobs \in HostMaxJobs }
    /\ jobs = [id \in {} |-> 0]
    /\ nextId = 1
    /\ attempts = <<>>
    /\ now = 0
    /\ config = [HeartbeatTimeout |-> StaleSeconds, JobRetention |-> 0]
    /\ claimTx = [e \in Executors |-> NoClaim]
    /\ staleJobs = {}
    /\ retriableJobs = {}
    /\ response = 0
    /\ runningJobs = [e \in Executors |-> {}]
    /\ claimCalls = [e \in Executors |-> 0]
    /\ completionOrder = <<>>

fetchFrame == UNCHANGED <<scenarioVars, cleanedAt, worker, sdk, capture, request, listing>>

NextFetch ==
    /\ \/ Tick /\ UNCHANGED <<host, cache>>
       \/ (\E p \in ClientPriorities : handleSubmitJob(p)) /\ UNCHANGED <<host, cache>>
       \/ checkStaleJobsFind /\ UNCHANGED <<host, cache>>
       \/ (\E id \in DOMAIN jobs : checkStaleJobsReset(id)) /\ UNCHANGED <<host, cache>>
       \/ cleanupOrphanedDirectories /\ UNCHANGED cache
       \/ HostClaimSelect /\ UNCHANGED cache
       \/ HostClaimUpdate /\ UNCHANGED cache
       \/ (\E x \in HostSlots : HostHeartbeat(x)) /\ UNCHANGED cache
       \/ (\E x \in HostSlots, ok \in BOOLEAN : executeJobMkdir(x, ok)) /\ UNCHANGED cache
       \/ \E x \in HostSlots, digest \in FetchDigests, served \in Served :
            executeJobFetch(x, digest, served)
       \/ (\E x \in HostSlots : runnerExecuteStart(x)) /\ UNCHANGED cache
       \/ (\E x \in HostSlots, exitCode \in HostExitCodes,
             stdout \in HostStdouts, stderr \in HostStderrs :
               runnerExecuteExit(x, exitCode, stdout, stderr)) /\ UNCHANGED cache
       \/ (\E x \in HostSlots, delivered \in BOOLEAN : executeJobReturn(x, delivered))
            /\ UNCHANGED cache
       \/ (\E path \in CachePaths : CorruptFile(path)) /\ UNCHANGED <<storeVars, host>>
    /\ fetchFrame

SpecFetch == InitFetch /\ [][NextFetch]_vars

-----
(* Claims *)

Min(a, b) == IF a < b THEN a ELSE b

Receivers == { e \in Executors : runningJobs[e] # {} }
Answered == { e \in Executors : claimCalls[e] > 0 }
Quiescent == \A e \in Executors : claimTx[e] = NoClaim

\* C1: in a wave of concurrent claims against n pending jobs no job is
\* returned to two claimers, every returned job is running and carries the
\* executor id of the claimer that received it, and once the k claims that
\* were issued are answered exactly min(n, k) claimers hold a job.
C1_ExclusiveClaim ==
    /\ \A e1, e2 \in Executors : e1 # e2 => runningJobs[e1] \cap runningJobs[e2] = {}
    /\ \A e \in Executors : \A id \in runningJobs[e] :
          jobs[id].status = "running" /\ jobs[id].executor_id = e
    /\ Quiescent =>
          Cardinality(Receivers) = Min(Cardinality(DOMAIN jobs), Cardinality(Answered))

\* Two claimers were answered although only one job was pending.
C1_Witness ==
    /\ Cardinality(DOMAIN jobs) = 1
    /\ Answered = Executors
    /\ Cardinality(Receivers) = 1

\* The order the claim is specified to follow, stated on the rows.
Outranks(a, b) ==
    \/ a.priority = "foreground" /\ b.priority \in {"background", "best_effort"}
    \/ a.priority = "background" /\ b.priority = "best_effort"
    \/ a.priority = b.priority /\ a.created_at < b.created_at

\* A claim that locks its row while no other claim is in flight picks a row
\* that no pending row outranks.
C2_SelectsBest ==
    \A e \in Executors :
        ( /\ claimTx[e] = NoClaim
          /\ claimTx'[e] # NoClaim
          /\ \A o \in Executors \ {e} : claimTx[o] = NoClaim )
        => \A id \in DOMAIN jobs :
              jobs[id].status = "pending" => ~Outranks(jobs[id], jobs[claimTx'[e].id])

\* Of two jobs completed by the same single-slot worker, the one completed
\* first is not outranked by the other if the other was already submitted
\* when the first was claimed.
C2_CompletedInOrder ==
    \A i, j \in 1..Len(completionOrder) :
        LET a == jobs[completionOrder[i]]
            b == jobs[completionOrder[j]]
        IN  ( /\ i < j
              /\ a.executor_id = b.executor_id
              /\ b.created_at < a.started_at )
            => ~Outranks(b, a)

\* C2: a claim that is not concurrent with another claim never returns a
\* pending job while a pending job of higher priority, or of the same
\* priority and older, exists; so one worker with max-jobs = 1 completes
\* jobs submitted as best_effort, background, foreground in the order
\* foreground, background, best_effort.
C2_PriorityOrder == [][C2_SelectsBest]_vars /\ []C2_CompletedInOrder

\* Submitted best_effort, background, foreground before the worker claimed;
\* completed by worker A in the opposite order.
C2_Witness ==
    /\ DOMAIN jobs = 1..3
    /\ jobs[1].priority = "best_effort"
    /\ jobs[2].priority = "background"
    /\ jobs[3].priority = "foreground"
    /\ \A id \in 1..3 : jobs[id].executor_id = "A" /\ jobs[id].created_at < jobs[3].started_at
    /\ completionOrder = <<3, 2, 1>>

\* The status changes a job may make.
AllowedTransitions ==
    { <<"pending", "running">>, <<"pending", "cancelled">>,
      <<"running", "completed">>, <<"running", "failed">>,
      <<"running", "pending">>, <<"failed", "pending">> }

\* C3: every change of a job's status is pending to running, pending to
\* cancelled, running to completed, running to failed, running to pending
\* (made by a stale reset) or failed to pending (made by a retry promotion);
\* a completed or cancelled job never changes status; a new row is pending.
C3_Step ==
    \A id \in JobIds :
        /\ (id \in DOMAIN jobs /\ id \in DOMAIN jobs' /\ jobs[id].status # jobs'[id].status) =>
              /\ <<jobs[id].status, jobs'[id].status>> \in AllowedTransitions
              /\ (jobs[id].status = "running" /\ jobs'[id].status = "pending") =>
                     (id \in staleJobs /\ id \notin staleJobs')
              /\ (jobs[id].status = "failed" /\ jobs'[id].status = "pending") =>
                     (id \in retriableJobs /\ id \notin retriableJobs')
        /\ (id \notin DOMAIN jobs /\ id \in DOMAIN jobs') => jobs'[id].status = "pending"

C3_StatusTransitions == [][C3_Step]_vars

\* A job that failed, was promoted, claimed again and completed.
C3_Witness ==
    \E id \in DOMAIN jobs : jobs[id].status = "completed" /\ jobs[id].retry_count = 1

\* Executor e is the current steward of job id.
Owns(e, id) == Exists(id) /\ jobs[id].status = "running" /\ jobs[id].executor_id = e

\* Executor e reports (complete or fail) a job it holds.
Reports(e, id) == id \in runningJobs[e] /\ id \notin runningJobs'[e]

\* C4: after stale recovery has reset a job that executor A was running, a
\* later complete or fail report of A for that job leaves the jobs table
\* unchanged, also when another executor has claimed the job since.
C4_LateReportDropped ==
    [][\A e \in Executors, id \in JobIds :
          (Reports(e, id) /\ ~Owns(e, id)) => jobs' = jobs]_vars

\* The rows a tick must select when the heartbeat timeout is H seconds.
StaleFor(H) ==
    { id \in DOMAIN jobs :
        /\ jobs[id].status = "running"
        /\ now - jobs[id].last_heartbeat >= H }

\* C5: with heartbeat timeout H configured, a stale-recovery tick selects
\* the running jobs whose last heartbeat is at least H old and no younger
\* one, and resets each selected job that is still running to pending with
\* executor_id, started_at and last_heartbeat cleared.
C5_StaleRecovery ==
    [][ /\ checkStaleJobsFind => staleJobs' = StaleFor(config.HeartbeatTimeout)
        /\ \A id \in JobIds :
              (checkStaleJobsReset(id) /\ Exists(id) /\ jobs[id].status = "running") =>
                  /\ jobs'[id].status = "pending"
                  /\ jobs'[id].executor_id = NULL
                  /\ jobs'[id].started_at = NoTime
                  /\ jobs'[id].last_heartbeat = NoTime ]_vars

\* C6: a step of stale recovery leaves every completed, failed or cancelled
\* job exactly as it was: never back to pending, no result field touched.
C6_Step ==
    (staleJobs' # staleJobs) =>
        \A id \in DOMAIN jobs :
            jobs[id].status \in TerminalStatuses =>
                id \in DOMAIN jobs' /\ jobs'[id] = jobs[id]

C6_StaleKeepsTerminal == [][C6_Step]_vars

\* A row selected as stale reached a terminal status before its reset ran.
C6_Witness ==
    \E id \in staleJobs : Exists(id) /\ jobs[id].status \in {"completed", "failed"}

\* C7: a heartbeat is always answered 204; it stamps last_heartbeat with the
\* current time when the job is running and owned by the caller and changes
\* no row otherwise, so repeated heartbeats leave what the last one leaves.
C7_Step ==
    \A id \in JobIds, e \in Executors :
        handleHeartbeat(id, e) =>
            /\ response' = 204
            /\ jobs' = IF Owns(e, id)
                       THEN [jobs EXCEPT ![id].last_heartbeat = now]
                       ELSE jobs

C8_Step ==
    \A id \in DOMAIN jobs :
        (id \in DOMAIN jobs' /\ jobs'[id].retry_count # jobs[id].retry_count) =>
            /\ jobs'[id].retry_count = jobs[id].retry_count + 1
            /\ jobs[id].retry_count < jobs[id].max_retries
            /\ jobs[id].status = "failed"
            /\ jobs'[id].status = "pending"

C8_RetryBounded ==
    /\ [](\A id \in DOMAIN jobs : jobs[id].retry_count <= jobs[id].max_retries)
    /\ [][C8_Step]_vars

\* C9: a cancelled job has completed_at set, is never locked by a claim and
\* its row never changes again (retention cleanup may delete it).
C9_Step ==
    \A id \in DOMAIN jobs :
        jobs[id].status = "cancelled" =>
            /\ jobs[id].completed_at # NoTime
            /\ \A e \in Executors : claimTx'[e].id # id
            /\ id \in DOMAIN jobs' => jobs'[id] = jobs[id]

C9_CancelledStays == [][C9_Step]_vars

\* A cancelled job that an executor still holds from before a stale reset.
C9_Witness ==
    \E e \in Executors : \E id \in runningJobs[e] :
        Exists(id) /\ jobs[id].status = "cancelled"

\* C10: a running job has executor_id and started_at set; a completed or
\* failed job has completed_at set.
C10_RequiredFields ==
    \A id \in DOMAIN jobs :
        /\ jobs[id].status = "running" =>
              jobs[id].executor_id # NULL /\ jobs[id].started_at # NoTime
        /\ jobs[id].status \in {"completed", "failed"} =>
              jobs[id].completed_at # NoTime

\* A job that failed again after a promotion had cleared its completed_at.
C10_Witness ==
    \E id \in DOMAIN jobs : jobs[id].status = "failed" /\ jobs[id].retry_count = 1

\* C11: right after a retention-cleanup tick no completed, failed or
\* cancelled job remains whose completed_at is older than the configured
\* job retention.
C11_RetentionCleanup ==
    cleanedAt = now =>
        \A id \in DOMAIN jobs :
            ~ /\ jobs[id].status \in TerminalStatuses
              /\ jobs[id].completed_at # NoTime
              /\ jobs[id].completed_at < now - config.JobRetention

\* C12: a worker never has more than max-jobs jobs in flight (claimed and
\* not yet through executeJob), and while max-jobs jobs are in flight no
\* poll tick sends a claim request.
C12_InFlightBound == Cardinality(InFlight) <= worker.cfg.MaxJobs

C12_NoClaimAtCapacity ==
    Cardinality(InFlight) = worker.cfg.MaxJobs =>
        ~(worker.poll = "select" /\ worker'.poll = "claiming")

C12_BoundedConcurrency == []C12_InFlightBound /\ [][C12_NoClaimAtCapacity]_vars

\* Both slots of a worker with max-jobs 2 are taken by running children and
\* the claim loop is back in its select.
C12_Witness ==
    /\ worker.cfg.MaxJobs = 2
    /\ Cardinality(InFlight) = 2
    /\ worker.jobSem = 2
    /\ worker.poll = "select"
    /\ \A j \in InFlight : worker.inflight[j].phase = "child"

\* C13: a job whose child is running when the worker has received the
\* shutdown signal is not cancelled: it stays in flight with its heartbeat
\* pump on, and when its child ends the exit code is the binary's own.
C13_Step ==
    \A j \in InFlight :
        (worker.ctx = "done" /\ worker.inflight[j].phase = "child") =>
            /\ j \in DOMAIN worker'.inflight
            /\ worker'.inflight[j].pump
            /\ worker'.inflight[j].phase = "exited" =>
                   worker'.inflight[j].exit_code = worker.inflight[j].real

C13_InFlightSurviveShutdown == [][C13_Step]_vars

\* C14: once the shutdown signal has been received the worker sends no
\* claim request and no job enters execution.
C14_Step ==
    worker.ctx = "done" =>
        /\ ~(worker.poll = "select" /\ worker'.poll = "claiming")
        /\ DOMAIN worker'.inflight \subseteq InFlight

C14_NoClaimAfterShutdown == [][C14_Step]_vars

\* C15: once the claim loop has stopped on the network timeout the worker
\* starts no job, cancels none, and when no job is in flight any more Run
\* returns, with or without a shutdown signal.
C15_Step ==
    worker.poll = "stopped_timeout" =>
        /\ worker'.poll = "stopped_timeout"
        /\ DOMAIN worker'.inflight \subseteq InFlight
        /\ worker.ctx = "live" =>
              \A j \in InFlight \cap DOMAIN worker'.inflight :
                  worker'.inflight[j].exit_code \in {NoInt, worker.inflight[j].real}
                      \/ worker.inflight[j].phase # "child"

C15_NetworkTimeoutExit ==
    /\ [][C15_Step]_vars
    /\ (worker.poll = "stopped_timeout" /\ InFlight = {}) ~> (worker.run = "returned")

\* C16: every request the server answers clears the network-failure
\* window, and the claim loop stops on the network timeout only when no
\* request has been answered for more than NetworkTimeout.
C16_Step ==
    /\ (worker'.lastSuccess # worker.lastSuccess) =>
           worker'.networkFailureStart = NoTime
    /\ (worker.poll # "stopped_timeout" /\ worker'.poll = "stopped_timeout") =>
           \/ worker.lastSuccess = NoTime
           \/ worker.clock - worker.lastSuccess > worker.cfg.NetworkTimeout

C16_SuccessClearsWindow == [][C16_Step]_vars

-----------------------------------------------------------------------------
(* C17 *)

\* The values the database clock takes.
ClockValues == { t \in 0..MaxTime : \E d \in TickSteps : t % d = 0 }

\* Job id is running and the executor that owns it no longer holds it: the
\* worker crashed, or executeJob returned after a post that failed.
Abandoned(id) ==
    /\ Exists(id)
    /\ jobs[id].status = "running"
    /\ jobs[id].executor_id \in Executors
    /\ id \notin runningJobs[jobs[id].executor_id]

\* The clock of the model reaches a value at which the row is stale.
StaleInTime(id) ==
    \E t \in ClockValues : jobs[id].last_heartbeat < t - StaleSeconds

C17_Step ==
    \A id \in JobIds :
      (Abandoned(id) /\ id \in staleJobs /\ staleJobs' = staleJobs \ {id}) =>
         /\ jobs'[id].status = "pending"
         /\ jobs'[id].executor_id = NULL
         /\ jobs'[id].last_heartbeat = NoTime
         /\ (~Locked(id) => id \in ClaimCandidates')

-----------------------------------------------------------------------------
(* C18 *)

MutatingOps == {"SubmitJob", "ClaimNextJob", "CancelJob", "CompleteJob", "FailJob"}

\* C18: the server processes at most one request per SDK call of a mutating
\* operation (submit, claim, cancel, complete, fail), whatever it answered
\* and whatever transport error occurred; one ClaimNextJob call promotes at
\* most one job and one SubmitJob call inserts at most one job.
C18_MutatingSentOnce ==
    sdk.op \in MutatingOps =>
      /\ sdk.handled <= 1
      /\ sdk.promoted <= 1
      /\ sdk.inserted <= 1

-----------------------------------------------------------------------------
(* C19 *)

\* C19: whenever GetBinary returns successfully, whatever the cache held
\* before (nothing, an intact entry, an entry corrupted on disk) and
\* whatever the budget, the returned path names a file that exists at
\* return time and whose SHA-256 equals the requested digest.
C19_ReturnedFileVerified ==
    cache.last.ok => cache.last.intact

-----------------------------------------------------------------------------
(* C20 *)

\* Every call so far named the digest, and the budget holds its binary.
OnlyRequested(digest) ==
    /\ cache.requested = {digest}
    /\ SizeOf(digest) <= cache.maxSizeMB * MiB

-----------------------------------------------------------------------------
(* C21 *)

\* The step is a GetBinary call that inserted a newly downloaded entry.
Inserted == cache'.clock = cache.clock + 1 /\ cache'.last.ok /\ cache'.last.downloaded

\* lastAccess of an entry when evictIfNeeded ran: the call's own time for
\* the entry it inserted, the indexed time for the others.
AccessAtEviction(digest) ==
    IF digest = cache'.last.digest THEN cache'.clock ELSE cache.entries[digest].lastAccess

\* The index evictIfNeeded started from.
IndexedAtEviction == DOMAIN cache.entries \cup {cache'.last.digest}

C21_Step ==
    Inserted =>
      LET budget == cache.maxSizeMB * MiB
          total == SizeOf(cache'.last.digest)
                     + SumSizes(cache.entries, DOMAIN cache.entries \ {cache'.last.digest})
      IN /\ SumSizes(cache'.entries, DOMAIN cache'.entries) <= budget
         /\ cache'.last.evicted = IndexedAtEviction \ DOMAIN cache'.entries
         /\ \A gone \in cache'.last.evicted, kept \in DOMAIN cache'.entries :
              ~(AccessAtEviction(kept) < AccessAtEviction(gone))
         /\ total <= budget => cache'.last.evicted = {}
         /\ \A kept \in DOMAIN cache'.entries \ {cache'.last.digest} :
              cache'.entries[kept] = cache.entries[kept]

C21_Witness ==
    /\ cache.last.ok /\ cache.last.downloaded
    /\ cache.last.digest = "d3"
    /\ cache.last.evicted = {"d2"}
    /\ DOMAIN cache.entries = {"d1", "d3"}
    /\ cache.entries["d1"].lastAccess = cache.clock - 1

\* C21: after every GetBinary call that inserts a newly downloaded entry
\* the indexed entries total at most maxCacheSize MB; the entries the call
\* evicted are the least recently accessed ones (no entry is evicted while
\* a strictly older one is kept), and nothing is evicted when the total was
\* within the budget.
C21_EvictionOrder == [][C21_Step]_vars

-----------------------------------------------------------------------------
(* C22 *)

C22_Witness ==
    /\ capture.applied = 2
    /\ StrLen(capture.output) > maxOutputSize
    /\ Len(capture.output) > maxHeadLines
    /\ Len(capture.once) > maxHeadLines + 2
    /\ Len(capture.once) < Len(capture.output)

\* C22: for every captured output s, truncateOutput(s) is at most
\* maxOutputSize bytes long, it is s itself when s is within the cap, and
\* truncating it again changes nothing.
C22_TruncateIdempotent ==
    /\ capture.applied >= 1 =>
         /\ StrLen(capture.once) <= maxOutputSize
         /\ StrLen(capture.output) <= maxOutputSize => capture.once = capture.output
    /\ capture.applied = 2 => capture.twice = capture.once

-----------------------------------------------------------------------------
(* C23 *)

\* The step is the return of execution x.
Returns(x) == x \in DOMAIN host.executions /\ x \notin DOMAIN host'.executions

C23_Step ==
    \A x \in HostSlots :
      Returns(x) /\ host.executions[x].ran =>
        LET id == host.executions[x].job
            c == host.executions[x].result.exit_code
            report == host'.last.report
        IN /\ host'.last.posts = 1
           /\ c = 0 => report.kind = "complete"
           /\ c # 0 => /\ report.kind = "fail"
                       /\ report.exit_code = c
                       /\ report.error_message = "Job failed with non-zero exit code"
           /\ host'.last.accepted =>
                /\ jobs'[id].status = IF c = 0 THEN "completed" ELSE "failed"
                /\ jobs'[id].exit_code = c
                /\ TextOf(jobs'[id].stdout) = host.executions[x].result.stdout
                /\ TextOf(jobs'[id].stderr) = host.executions[x].result.stderr

-----------------------------------------------------------------------------
(* C24 *)

\* Execution x could not create its directory while another execution of
\* the same job, still in flight, holds one of that name (two executions
\* of one job are the subject of C25).
ForeignDir(x) == ~host.executions[x].cleanup /\ SharedDir(x)

C24_Step ==
    \A x \in HostSlots :
      Returns(x) /\ ~ForeignDir(x) =>
        [name |-> JobDirName(host.executions[x].job), kind |-> "dir"] \notin host'.entries

\* The worker polls and no executeJob goroutine runs.
NoJobInFlight == host.run = "polling" /\ host.executions = NoExecutions

-----------------------------------------------------------------------------
(* C25 *)

\* Execution x has created its directory and has not returned.
UsesWorkDir(x) == x \in DOMAIN host.executions /\ host.executions[x].cleanup

\* C25: no two in-flight executions of the worker use the same working
\* directory, and the cleanup of a returning execution never removes a
\* directory another in-flight execution is using, also with maxJobs >= 2
\* when the worker claims again a job it still executes.
C25_ExclusiveWorkDir ==
    /\ \A x, y \in HostSlots :
         UsesWorkDir(x) /\ UsesWorkDir(y) /\ x # y =>
           JobDirName(host.executions[x].job) # JobDirName(host.executions[y].job)
    /\ ~host.last.shared

-----------------------------------------------------------------------------
(* C26 *)

\* The startup cleanup has run and no job was claimed yet.
StartedUp == host.run = "polling" /\ ~host.claimed

\* C26: after the orphan cleanup of worker startup and before the first
\* claim, the work directory holds no entry left by a prior incarnation,
\* be it a subdirectory or a plain file.
C26_NoLeftovers == StartedUp => host.entries = {}

-----------------------------------------------------------------------------
(* C27 *)

\* The attempts of job id that no statement has closed.
OpenAttempts(id) ==
    { i \in DOMAIN attempts : attempts[i].job_id = id /\ attempts[i].ended_at = NoTime }

\* C27: a claim records one attempt, running and with no ended_at, and the
\* end of the stewardship (complete, fail, stale reset) closes it; so in
\* every state a job has at most one attempt with no ended_at, and has one
\* only while it is running.
C27_OneOpenAttempt ==
    \A id \in DOMAIN jobs :
      /\ Cardinality(OpenAttempts(id)) <= 1
      /\ OpenAttempts(id) # {} => jobs[id].status = "running"

-----------------------------------------------------------------------------
(* C28 *)

\* The type holds a whitespace character.
HasWhitespace(type) == \E i \in 1..Len(type) : type[i] = " "

\* What the validation of a submission is to refuse.
Invalid(submission) ==
    \/ submission.type = <<>>
    \/ HasWhitespace(submission.type)
    \/ submission.binary_url = ""
    \/ submission.priority \notin Priorities

\* C28: a single submission whose type is empty or holds whitespace, whose
\* binary_url is empty or whose priority is not foreground, background or
\* best_effort is answered 400 and inserts no row; every other submission
\* inserts exactly one row, with status pending.
C28_SubmitValidated ==
    request.op = "submit" =>
      IF Invalid(request.body)
      THEN request.code = 400 /\ request.inserted = 0
      ELSE request.inserted = 1 /\ request.after = "pending"

-----------------------------------------------------------------------------
(* C29 *)

\* C29: a job submitted by a single submission with max_retries = k is
\* stored with max_retries = k, as one submitted in bulk is.
C29_SingleSubmitKeepsMaxRetries ==
    /\ request.op \in {"submit", "bulk"}
    /\ request.inserted = 1
    /\ Exists(request.id)
    => jobs[request.id].max_retries = request.body.max_retries

-----------------------------------------------------------------------------
(* C30 *)

\* C30: cancelling a job that exists and is not pending is answered 400
\* and leaves the row as it was; cancelling an id no row has is answered
\* 404.
C30_CancelNonPending ==
    request.op = "cancel" =>
      /\ request.before \notin {"pending", "absent"} => request.code = 400 /\ request.same
      /\ request.before = "absent" => request.code = 404

-----------------------------------------------------------------------------
(* C31 *)

\* C31: a complete or fail call for a job that is pending, completed,
\* failed or cancelled is answered 400 and leaves the job as it was.
C31_ReportNonRunning ==
    /\ request.op \in {"complete", "fail"}
    /\ request.before \in {"pending", "completed", "failed", "cancelled"}
    => request.code = 400 /\ request.same

-----------------------------------------------------------------------------
(* C32 *)

MaxLimit == 1000                       \* the largest page of a list request

\* The rows a list request is to return: those that match every filter
\* that is set, newest first, after offset rows, at most min(limit, 1000)
\* of them, 100 when no limit is given.
ListedAsSpecified(table, query) ==
    LET limit == IF ~query.limit.given THEN DefaultLimit
                 ELSE IF query.limit.value > MaxLimit THEN MaxLimit ELSE query.limit.value
        nullable(param) == IF param = "" THEN NULL ELSE param
    IN ListJobsFrom(table, 1, nullable(query.status), nullable(query.type),
                    nullable(query.priority), limit, offsetOf(query.offset))

\* C32: a list request returns, newest first, exactly the jobs that match
\* every filter that is set (an absent filter matches all jobs), after
\* skipping offset jobs, and at most min(limit, 1000) of them (100 when no
\* limit is given).
C32_ListFiltered ==
    /\ listing.done
    /\ ~listing.query.limit.given \/ listing.query.limit.value > 0
    => listing.result = ListedAsSpecified(listing.table, listing.query)

-----------------------------------------------------------------------------
(* C33 *)

\* The step answers a claim with job id.
ClaimReturns(id) ==
    /\ Len(attempts') = Len(attempts) + 1
    /\ attempts'[Len(attempts')].job_id = id

C33_Step ==
    \A id \in DOMAIN jobs :
      /\ ClaimReturns(id) =>
           jobs[id].status = "pending" /\ jobs'[id].status = "running"
      /\ id \in DOMAIN jobs' /\ jobs'[id].status = "cancelled" /\ jobs[id].status # "cancelled" =>
           /\ jobs[id].status = "pending"
           /\ ~Locked(id)
           /\ attempts' = attempts

\* A cancel lost the race: the job was claimed, the cancel changed nothing.
C33_Witness ==
    /\ request.op = "cancel"
    /\ request.before = "running"
    /\ request.same
    /\ Exists(request.id)
    /\ jobs[request.id].status = "running"
    /\ jobs[request.id].executor_id = ApiExecutor

\* C33: of a cancel and a claim that race for a pending job exactly one
\* takes effect: a claim returns only a job that was pending and makes it
\* running, a cancel takes effect only on a pending job no claim has
\* locked and then no claim returns it; a cancelled job is never held by a
\* claim.
C33_CancelOrClaim ==
    /\ [][C33_Step]_vars
    /\ [](\A id \in DOMAIN jobs :
            jobs[id].status = "cancelled" => jobs[id].executor_id = NULL /\ ~Locked(id))

-----------------------------------------------------------------------------
(* C34 *)

\* The step is a ResetStaleJob that took job id from its executor.
ResetTakes(id) ==
    /\ id \in staleJobs /\ id \notin staleJobs'
    /\ jobs[id].status = "running"
    /\ jobs'[id].status = "pending"

C34_Step ==
    \A id \in DOMAIN jobs :
      ResetTakes(id) => jobs[id].last_heartbeat < now - StaleSeconds

\* C34: stale recovery resets a job only if at the reset it is still the
\* stale stewardship the tick selected; a job whose owner heartbeated
\* since the selection, or that another executor claimed since, is left
\* running.
C34_ResetOnlyStale == [][C34_Step]_vars

-----------------------------------------------------------------------------
(* C35 *)

\* The stored result of job id carries the output executor e captured.
ResultOf(id, e) == jobs[id].stdout = StdoutOf(e)

\* C35: the result stored in a completed or failed job was posted by the
\* executor recorded in the job's executor_id, the executor of its latest
\* claim; a result of an earlier stewardship is never stored under a later
\* owner.
C35_ResultOfOwner ==
    \A id \in DOMAIN jobs, e \in Executors :
      jobs[id].status \in {"completed", "failed"} /\ ResultOf(id, e) =>
        jobs[id].executor_id = e

-----------------------------------------------------------------------------
(* C36 *)

\* A step promotes job id: its row goes from failed to pending.
Promotes(id) ==
    /\ id \in DOMAIN jobs /\ id \in DOMAIN jobs'
    /\ jobs[id].status = "failed"
    /\ jobs'[id].status = "pending"

\* The row a promotion of a job with retry_count k leaves.
Promoted(row) ==
    [row EXCEPT !.retry_count = row.retry_count + 1,
                !.status = "pending",
                !.retry_after = now + RetryBackoffSeconds * (2 ^ row.retry_count),
                !.stdout = NULL, !.stderr = NULL, !.exit_code = NoInt,
                !.error_message = NULL, !.executor_id = NULL,
                !.started_at = NoTime, !.completed_at = NoTime,
                !.last_heartbeat = NoTime]

C36_Step ==
    \A id \in DOMAIN jobs :
      Promotes(id) =>
        /\ jobs'[id] = Promoted(jobs[id])
        /\ jobs[id].retry_count = 0 => jobs[id].retry_after = NoTime
        /\ jobs[id].retry_count > 0 => jobs[id].retry_after < now

\* A second promotion has happened: the job waited out its first backoff.
C36_Witness ==
    \E id \in DOMAIN jobs :
      /\ jobs[id].retry_count = 2
      /\ jobs[id].status = "pending"
      /\ jobs[id].retry_after = now + RetryBackoffSeconds * 2

\* C36: a retry promotion of a job whose retry_count is k sets retry_after
\* to now + 60 s * 2^k, retry_count to k + 1, status to pending and clears
\* stdout, stderr, exit_code, error_message, executor_id, started_at,
\* completed_at and last_heartbeat; the job is not promoted again before
\* that retry_after has passed.
C36_RetryBackoff == [][C36_Step]_vars

-----------------------------------------------------------------------------
(* C37 *)

\* Execution x could not be prepared: it goes to failJob.
Unprepared(x) == x \in DOMAIN host.executions /\ host.executions[x].via = "failJob"

\* A step in which GetBinary of execution x fails.
FetchFails(x) ==
    /\ x \in DOMAIN host.executions
    /\ host.executions[x].phase = "binary"
    /\ x \in DOMAIN host'.executions
    /\ host'.executions[x].via = "failJob"

\* The failed GetBinary leaves no temporary file, and neither a file nor an
\* index entry for the digest it was called with.
C37_FetchStep ==
    \A x \in HostSlots :
      FetchFails(x) =>
        /\ ~cache'.last.ok
        /\ \A path \in DOMAIN cache'.files : path.ext # ".tmp"
        /\ cache'.last.digest \notin DOMAIN cache'.entries
        /\ cachePath(cache'.last.digest) \notin DOMAIN cache'.files

\* The unprepared execution returns: one fail report with a diagnostic and
\* exit code -1, no directory of the job left, the slot free again.
C37_ReturnStep ==
    \A x \in HostSlots :
      Returns(x) /\ Unprepared(x) =>
        /\ host'.last.posts = 1
        /\ host'.last.report.kind = "fail"
        /\ host'.last.report.error_message # ""
        /\ host'.last.report.exit_code = -1
        /\ ~host'.last.ran
        /\ ~ForeignDir(x) =>
             [name |-> JobDirName(host.executions[x].job), kind |-> "dir"] \notin host'.entries
        /\ x \notin DOMAIN host'.executions
        /\ Cardinality(DOMAIN host'.executions) = Cardinality(DOMAIN host.executions) - 1

\* An unprepared execution has no child process, now or before.
C37_NoChild ==
    \A x \in HostSlots :
      Unprepared(x) => host.executions[x].phase = "exited" /\ ~host.executions[x].ran

-----------------------------------------------------------------------------
(* C38 *)

\* Slots of jobSem in use: one per executeJob goroutine and one for the
\* claim request pollForJobs is waiting on.
SlotsInUse == Cardinality(InFlight) + (IF worker.poll = "claiming" THEN 1 ELSE 0)

\* A claim request ends without a job: with an error or with no job.
ClaimEndsWithoutJob ==
    /\ worker.poll = "claiming"
    /\ worker'.poll # "claiming"
    /\ DOMAIN worker'.inflight = InFlight

\* The execution of job j ends.
ExecutionEnds(j) ==
    /\ j \in InFlight
    /\ worker.inflight[j].phase = "exited"
    /\ DOMAIN worker'.inflight = InFlight \ {j}

C38_Step ==
    /\ worker'.jobSem > worker.jobSem =>
         /\ worker'.jobSem = worker.jobSem + 1
         /\ worker.poll = "select" /\ worker'.poll = "claiming"
    /\ worker'.jobSem < worker.jobSem =>
         /\ worker'.jobSem = worker.jobSem - 1
         /\ ClaimEndsWithoutJob \/ \E j \in InFlight : ExecutionEnds(j)
    /\ (ClaimEndsWithoutJob \/ \E j \in InFlight : ExecutionEnds(j)) =>
         worker'.jobSem = worker.jobSem - 1

\* Slots were taken and given back on every path: a job has run to its end,
\* a later claim failed, and the worker is idle with every slot free.
C38_Witness ==
    /\ worker.nextJob > 1
    /\ InFlight = {}
    /\ worker.poll = "select"
    /\ worker.networkFailureStart # NoTime
    /\ worker.posted.kind # "none"
    /\ worker.jobSem = 0

\* C38: every slot of jobSem the worker takes is given back exactly once:
\* on a claim error, on an empty claim, or when the execution of the claimed
\* job ends; the number of slots held always equals the number of
\* executions in flight plus one if a claim request is in progress, so no
\* slot leaks.
C38_SlotsAccounted ==
    /\ [](worker.jobSem = SlotsInUse)
    /\ [][C38_Step]_vars

-----------------------------------------------------------------------------
(* C39 *)

C39_Step ==
    \A id \in DOMAIN jobs :
      jobs[id].status = "completed" =>
        \/ id \notin DOMAIN jobs'
        \/ /\ jobs'[id].status = "completed"
           /\ jobs'[id].stdout = jobs[id].stdout
           /\ jobs'[id].stderr = jobs[id].stderr
           /\ jobs'[id].exit_code = jobs[id].exit_code
           /\ jobs'[id].executor_id = jobs[id].executor_id
           /\ jobs'[id].completed_at = jobs[id].completed_at
           /\ jobs'[id] = jobs[id]

\* A report for a job that was completed some time ago has been refused.
C39_Witness ==
    \E id \in DOMAIN jobs :
      /\ jobs[id].status = "completed"
      /\ jobs[id].completed_at < now
      /\ response = 500

\* C39: once a job is completed its stdout, stderr, exit_code, executor_id
\* and completed_at never change again, whatever operation follows (late
\* complete, late fail, heartbeat, cancel, stale recovery, retry promotion);
\* its row stays as it is until retention cleanup deletes it.
C39_CompletedStays == [][C39_Step]_vars

-----------------------------------------------------------------------------
(* C40 *)

\* The step deletes job id.
Deletes(id) == id \in DOMAIN jobs /\ id \notin DOMAIN jobs'

C40_Step ==
    \A id \in DOMAIN jobs :
      Deletes(id) =>
        /\ jobs[id].status \notin {"pending", "running"}
        /\ jobs[id].status \in TerminalStatuses
        /\ jobs[id].completed_at # NoTime
        /\ now - jobs[id].completed_at >= config.JobRetention

\* Every attempt record refers to a job of the table.
C40_NoOrphanAttempts ==
    \A i \in DOMAIN attempts : attempts[i].job_id \in DOMAIN jobs

\* A cleanup tick has just run over a job that was completed less than the
\* retention period ago: the job and the record of its attempt are there.
C40_Witness ==
    /\ cleanedAt = now
    /\ config.JobRetention > 0
    /\ attempts # <<>>
    /\ \E id \in DOMAIN jobs :
         /\ jobs[id].status = "completed"
         /\ now - jobs[id].completed_at < config.JobRetention

\* C40: retention cleanup deletes no pending or running job and no terminal
\* job whose completed_at is younger than the retention period; after a
\* cleanup every remaining attempt record refers to a job that still exists.
C40_CleanupSafe == [][C40_Step]_vars /\ []C40_NoOrphanAttempts

====
